---------------------------- MODULE Spec2Model ----------------------------
(***************************************************************************)
(* A model of laser-rs (LBRN2 -> SVG converter).                           *)
(*                                                                         *)
(*   Spec      the shape tree builder of src/src/parser.rs, driven by the  *)
(*             events of the streaming XML reader, one action per event    *)
(*   SpecSvg   the document assembler of src/src/svg.rs and the bounds     *)
(*             engine of src/src/bounds.rs over bounded shape trees        *)
(*   SpecPath  generate_path_data of src/src/path.rs, one action per       *)
(*             iteration of its loop over the primitives                   *)
(*                                                                         *)
(* Conventions.  Option<T> is a sequence of length <= 1: None is <<>> and  *)
(* Some(x) is <<x>>.  A Rust String is a sequence of one-character         *)
(* strings, the empty String is <<>>.  f64 values are integers: every      *)
(* numeral of the modelled inputs is an integer numeral, on which the      *)
(* arithmetic of the code and its {:.6} formatting are exact.              *)
(***************************************************************************)
EXTENDS Integers, Sequences, FiniteSets, TLC

None == <<>>

Some(x) == <<x>>

IsSome(o) == o # <<>>

Unwrap(o) == o[1]

UnwrapOr(o, dflt) == IF o = <<>> THEN dflt ELSE o[1]

(***************************************************************************)
(* Characters.                                                             *)
(***************************************************************************)
Digits == {"0", "1", "2", "3", "4", "5", "6", "7", "8", "9"}

\* char::is_whitespace on the characters of the modelled inputs
WhitespaceChars == {" "}

\* the characters both numeral scanners of parser.rs accept
NumeralChars == Digits \cup {"-", "+", ".", "e", "E"}

\* char::is_alphabetic on the characters of the modelled inputs
AlphabeticChars ==
    {"V", "L", "B", "X", "c", "x", "y", "e", "E", "i", "n", "d", "s", "o", "l"}

DigitVal(ch) ==
    CASE ch = "0" -> 0 [] ch = "1" -> 1 [] ch = "2" -> 2 [] ch = "3" -> 3
      [] ch = "4" -> 4 [] ch = "5" -> 5 [] ch = "6" -> 6 [] ch = "7" -> 7
      [] ch = "8" -> 8 [] ch = "9" -> 9

RECURSIVE DigitsVal(_, _)
\* the value of a string of digits, acc the value of the digits already read
DigitsVal(s, acc) ==
    IF s = <<>> THEN acc ELSE DigitsVal(Tail(s), 10 * acc + DigitVal(Head(s)))

AllDigits(s) == \A i \in 1..Len(s) : s[i] \in Digits

\* str::parse::<f64>() on a string of NumeralChars: Some(value) for an
\* integer numeral with an optional sign, None for a string that is no
\* float.  (Numerals with '.', 'e' or 'E' are outside the modelled inputs.)
ParseF64(s) ==
    IF s = <<>> THEN None
    ELSE IF Head(s) \in {"-", "+"}
         THEN IF Len(s) > 1 /\ AllDigits(Tail(s))
              THEN Some((IF Head(s) = "-" THEN -1 ELSE 1) * DigitsVal(Tail(s), 0))
              ELSE None
         ELSE IF AllDigits(s) THEN Some(DigitsVal(s, 0)) ELSE None

\* str::parse::<usize>() / <i32>() on a string of digits
ParseUnsigned(s) == IF s # <<>> /\ AllDigits(s) THEN Some(DigitsVal(s, 0)) ELSE None

RECURSIVE ScanWhile(_, _, _)
\* the first index j >= i with chars[j] \notin set, or Len(chars) + 1
ScanWhile(chars, i, set) ==
    IF i <= Len(chars) /\ chars[i] \in set THEN ScanWhile(chars, i + 1, set) ELSE i

RECURSIVE ScanUntil(_, _, _)
\* the first index j >= i with chars[j] \in set, or Len(chars) + 1
ScanUntil(chars, i, set) ==
    IF i <= Len(chars) /\ chars[i] \notin set THEN ScanUntil(chars, i + 1, set) ELSE i

\* chars[i..j-1]
Slice(chars, i, j) == SubSeq(chars, i, j - 1)

StartsWith(chars, i, pre) ==
    /\ i + Len(pre) - 1 <= Len(chars)
    /\ \A k \in 1..Len(pre) : chars[i + k - 1] = pre[k]

\* str::trim
Trim(s) ==
    LET i == ScanWhile(s, 1, WhitespaceChars)
        j == CHOOSE k \in 0..Len(s) :
                 /\ k = 0 \/ s[k] \notin WhitespaceChars
                 /\ \A m \in (k + 1)..Len(s) : s[m] \in WhitespaceChars
    IN  IF i > j THEN <<>> ELSE SubSeq(s, i, j)

(***************************************************************************)
(* types.rs                                                                *)
(***************************************************************************)
Vec2(x, y, c0x, c0y, c1x, c1y) ==
    [x |-> x, y |-> y, c0x |-> c0x, c0y |-> c0y, c1x |-> c1x, c1y |-> c1y]

Identity == [a |-> 1, b |-> 0, c |-> 0, d |-> 1, e |-> 0, f |-> 0]

\* a composition that applies self first and then other
ComposeSelfFirst(self, other) ==
    [a |-> other.a * self.a + other.c * self.b,
     b |-> other.b * self.a + other.d * self.b,
     c |-> other.a * self.c + other.c * self.d,
     d |-> other.b * self.c + other.d * self.d,
     e |-> other.a * self.e + other.c * self.f + other.e,
     f |-> other.b * self.e + other.d * self.f + other.f]

Compose(self, other) ==
    [a |-> self.a * other.a + self.c * other.b,
     b |-> self.b * other.a + self.d * other.b,
     c |-> self.a * other.c + self.c * other.d,
     d |-> self.b * other.c + self.d * other.d,
     e |-> self.a * other.e + self.c * other.f + self.e,
     f |-> self.b * other.e + self.d * other.f + self.f]

TransformPoint(self, x, y) ==
    <<self.a * x + self.c * y + self.e, self.b * x + self.d * y + self.f>>

(***************************************************************************)
(* parser.rs: the micro-language decoders                                  *)
(***************************************************************************)
CpKeys == <<"c0x", "c0y", "c1x", "c1y">>

CpKeyChars(k) ==
    CASE k = "c0x" -> <<"c", "0", "x">> [] k = "c0y" -> <<"c", "0", "y">>
      [] k = "c1x" -> <<"c", "1", "x">> [] k = "c1y" -> <<"c", "1", "y">>

\* the key the remaining text starts with, if any (the if/else chain)
CpKeyAt(chars, i) ==
    IF StartsWith(chars, i, CpKeyChars("c0x")) THEN Some("c0x")
    ELSE IF StartsWith(chars, i, CpKeyChars("c0y")) THEN Some("c0y")
    ELSE IF StartsWith(chars, i, CpKeyChars("c1x")) THEN Some("c1x")
    ELSE IF StartsWith(chars, i, CpKeyChars("c1y")) THEN Some("c1y")
    ELSE None

NoControlPoints == [c0x |-> None, c0y |-> None, c1x |-> None, c1y |-> None]

RECURSIVE CpLoop(_, _, _)
\* the while loop of parse_control_point_data
CpLoop(chars, i, acc) ==
    IF i > Len(chars) THEN acc
    ELSE LET key == CpKeyAt(chars, i) IN
         IF IsSome(key)
         THEN LET j == ScanWhile(chars, i + 3, NumeralChars)
                  value == ParseF64(Slice(chars, i + 3, j))
              IN  CpLoop(chars, j,
                         IF IsSome(value)
                         THEN [acc EXCEPT ![Unwrap(key)] = value]
                         ELSE acc)
         ELSE CpLoop(chars, i + 1, acc)

parse_control_point_data(cp_str) ==
    IF cp_str = <<>> \/ Head(cp_str) # "c" THEN NoControlPoints
    ELSE CpLoop(cp_str, 1, NoControlPoints)

RECURSIVE VertLoop(_, _, _)
\* the outer while loop of parse_vert_list, from index i with `vertices` = acc
VertLoop(chars, i, acc) ==
    IF i > Len(chars) THEN acc
    ELSE LET i1 == ScanWhile(chars, i, WhitespaceChars) IN
         IF i1 <= Len(chars) /\ chars[i1] = "V"
         THEN LET i2 == ScanWhile(chars, i1 + 1, WhitespaceChars)
                  i3 == ScanWhile(chars, i2, NumeralChars)
                  x_str == Slice(chars, i2, i3)
                  i4 == ScanWhile(chars, i3, WhitespaceChars)
                  i5 == ScanWhile(chars, i4, NumeralChars)
                  y_str == Slice(chars, i4, i5)
                  i6 == ScanUntil(chars, i5, {"V"})
                  cp == parse_control_point_data(Trim(Slice(chars, i5, i6)))
              IN  IF x_str = <<>> \/ y_str = <<>>
                  THEN VertLoop(chars, i6, acc)
                  ELSE VertLoop(chars, i6,
                           Append(acc, Vec2(UnwrapOr(ParseF64(x_str), 0),
                                            UnwrapOr(ParseF64(y_str), 0),
                                            cp.c0x, cp.c0y, cp.c1x, cp.c1y)))
         ELSE VertLoop(chars, i1 + 1, acc)

parse_vert_list(vert_list_str) == VertLoop(vert_list_str, 1, <<>>)

\* a parse_next_int that does not skip the whitespace before the digits
parse_next_int_no_skip(chars, i) ==
    LET i2 == ScanWhile(chars, i, Digits)
    IN  <<ParseUnsigned(Slice(chars, i, i2)), i2>>

\* parse_next_int: <<Option<usize>, the index after the scan>>
parse_next_int(chars, i) ==
    LET i1 == ScanWhile(chars, i, WhitespaceChars)
        i2 == ScanWhile(chars, i1, Digits)
    IN  <<ParseUnsigned(Slice(chars, i1, i2)), i2>>

RECURSIVE PrimArgs(_, _, _, _)
\* the `for _ in 0..4` loop: <<args, the index after the last scan>>
PrimArgs(chars, i, n, args) ==
    IF n = 0 THEN <<args, i>>
    ELSE LET r == parse_next_int(chars, i) IN
         IF IsSome(r[1]) THEN PrimArgs(chars, r[2], n - 1, Append(args, Unwrap(r[1])))
         ELSE <<args, r[2]>>

Line(s, e) == [kind |-> "Line", start_idx |-> s, end_idx |-> e]

Bezier(s, e) == [kind |-> "Bezier", start_idx |-> s, end_idx |-> e]

RECURSIVE PrimLoop(_, _, _)
\* the outer while loop of parse_prim_list
PrimLoop(chars, i, acc) ==
    IF i > Len(chars) THEN acc
    ELSE LET i1 == ScanWhile(chars, i, WhitespaceChars) IN
         IF i1 > Len(chars) THEN acc
         ELSE IF chars[i1] \notin AlphabeticChars THEN PrimLoop(chars, i1 + 1, acc)
         ELSE LET r == PrimArgs(chars, i1 + 1, 4, <<>>)
                  args == r[1]
              IN  IF chars[i1] = "L" /\ Len(args) >= 2
                  THEN PrimLoop(chars, r[2], Append(acc, Line(args[1], args[2])))
                  ELSE IF chars[i1] = "B" /\ Len(args) >= 2
                  THEN PrimLoop(chars, r[2], Append(acc, Bezier(args[1], args[2])))
                  ELSE PrimLoop(chars, r[2], acc)

parse_prim_list(prim_list_str) == PrimLoop(prim_list_str, 1, <<>>)

\* a token of split_whitespace(): its text parses as f64 (ok) to v, or not
NumTok(v) == [ok |-> TRUE, v |-> v]

JunkTok == [ok |-> FALSE, v |-> 0]

\* parse_xform on the whitespace-separated tokens of the text
parse_xform(tokens) ==
    LET parts == SelectSeq(tokens, LAMBDA t : t.ok) IN
    IF Len(parts) = 6
    THEN [a |-> parts[1].v, b |-> parts[2].v, c |-> parts[3].v,
          d |-> parts[4].v, e |-> parts[5].v, f |-> parts[6].v]
    ELSE Identity

\* parse_xform: whether "Invalid XForm string, using identity" is printed
parse_xform_warns(tokens) == Len(SelectSeq(tokens, LAMBDA t : t.ok)) # 6

(***************************************************************************)
(* parser.rs: the shape tree builder                                       *)
(***************************************************************************)
\* the IDs a VertID / PrimID attribute of the modelled documents may carry
IdSpace == {0}

\* HashMap::new(): no ID has an entry
EmptyCache == [k \in IdSpace |-> None]

\* an attribute list: each attribute is absent (None) or Some(raw value);
\* a numeric raw value is a token whose text parses (ok, to v) or does not
NoAttrs ==
    [Type |-> None, CutIndex |-> None, W |-> None, H |-> None, Cr |-> None,
     Rx |-> None, Ry |-> None, VertID |-> None, PrimID |-> None,
     HasBackupPath |-> None, Data |-> None, Value |-> None,
     AppVersion |-> None, FormatVersion |-> None]

\* `x = value.to_string()` over an initial String::new() (chars are not
\* needed for Type and Data: the code only compares them)
AttrString(a) == UnwrapOr(a, "")

\* `x = value.parse().unwrap_or(0)` over an initial 0
AttrNumOrZero(a) == IF IsSome(a) /\ Unwrap(a).ok THEN Unwrap(a).v ELSE 0

\* `x = value.parse().ok()` over an initial None
AttrNumOk(a) == IF IsSome(a) /\ Unwrap(a).ok THEN Some(Unwrap(a).v) ELSE None

\* the locals of one activation of parse_shape_inner, after the attribute
\* loop of its call site (`site`: where the result goes; history: `held`,
\* the last shape this activation parsed and then discarded, `bp_held`,
\* the same of its last BackupPath, and `known`, the IDs that had a
\* definition in a closed shape when this activation started)
NewFrame(site, attrs) ==
    [site |-> site,
     shape_type |-> AttrString(attrs.Type),
     cut_index |-> AttrNumOrZero(attrs.CutIndex),
     w |-> AttrNumOrZero(attrs.W),
     h |-> AttrNumOrZero(attrs.H),
     cr |-> AttrNumOrZero(attrs.Cr),
     rx |-> AttrNumOrZero(attrs.Rx),
     ry |-> AttrNumOrZero(attrs.Ry),
     vert_id |-> AttrNumOk(attrs.VertID),
     prim_id |-> AttrNumOk(attrs.PrimID),
     has_backup_path |-> (attrs.HasBackupPath = Some("1")),
     data |-> AttrString(attrs.Data),
     xform |-> Identity,
     vert_list |-> <<>>,
     prim_list |-> <<>>,
     children |-> <<>>,
     backup_path_shape |-> None,
     depth |-> 1,
     current_tag |-> "",
     in_children |-> FALSE,
     in_backup_path |-> FALSE,
     held |-> None,
     bp_held |-> None,
     known |-> [V |-> {}, P |-> {}]]

RectShape(cut_index, xform, w, h, cr) ==
    [kind |-> "Rect", cut_index |-> cut_index, xform |-> xform,
     w |-> w, h |-> h, cr |-> cr]

EllipseShape(cut_index, xform, rx, ry) ==
    [kind |-> "Ellipse", cut_index |-> cut_index, xform |-> xform,
     rx |-> rx, ry |-> ry]

PathShape(cut_index, xform, vert_list, prim_list, verts, prims) ==
    [kind |-> "Path", cut_index |-> cut_index, xform |-> xform,
     vert_list |-> vert_list, prim_list |-> prim_list,
     parsed_verts |-> verts, parsed_primitives |-> prims]

BitmapShape(cut_index, xform, w, h, data) ==
    [kind |-> "Bitmap", cut_index |-> cut_index, xform |-> xform,
     w |-> w, h |-> h, data |-> data]

GroupShape(cut_index, xform, children) ==
    [kind |-> "Group", cut_index |-> cut_index, xform |-> xform,
     children |-> children]

LineClosed == <<"L", "i", "n", "e", "C", "l", "o", "s", "e", "d">>

\* a resolver that never looks into the cache
ResolveVertsInlineOnly(fr, vertex_cache) ==
    IF fr.vert_list # <<>>
    THEN LET verts == parse_vert_list(fr.vert_list) IN
         [items |-> verts, raw |-> fr.vert_list, warn |-> FALSE,
          cache |-> IF IsSome(fr.vert_id)
                    THEN [vertex_cache EXCEPT ![Unwrap(fr.vert_id)] =
                              Some([raw |-> fr.vert_list, items |-> verts])]
                    ELSE vertex_cache]
    ELSE [items |-> <<>>, raw |-> <<>>, warn |-> IsSome(fr.vert_id),
          cache |-> vertex_cache]

\* a resolver that says nothing of an ID it does not find
ResolvePrimsSilent(fr, primitive_cache) ==
    IF fr.prim_list # <<>>
    THEN LET prims == IF fr.prim_list = LineClosed THEN <<>>
                      ELSE parse_prim_list(fr.prim_list) IN
         [items |-> prims, raw |-> fr.prim_list, warn |-> FALSE,
          cache |-> IF IsSome(fr.prim_id)
                    THEN [primitive_cache EXCEPT ![Unwrap(fr.prim_id)] =
                              Some([raw |-> fr.prim_list, items |-> prims])]
                    ELSE primitive_cache]
    ELSE IF IsSome(fr.prim_id) /\ IsSome(primitive_cache[Unwrap(fr.prim_id)])
    THEN LET hit == primitive_cache[Unwrap(fr.prim_id)] IN
         [items |-> Unwrap(hit).items, raw |-> Unwrap(hit).raw,
          warn |-> FALSE, cache |-> primitive_cache]
    ELSE [items |-> <<>>, raw |-> <<>>, warn |-> FALSE, cache |-> primitive_cache]

\* a builder that keeps a Group without children
BuildShapeKeepsEmptyGroup(fr, rv, rp) ==
    CASE fr.shape_type = "Rect" ->
           Some(RectShape(fr.cut_index, fr.xform, fr.w, fr.h, fr.cr))
      [] fr.shape_type = "Ellipse" ->
           Some(EllipseShape(fr.cut_index, fr.xform, fr.rx, fr.ry))
      [] fr.shape_type = "Path" ->
           IF rv.items = <<>> THEN None
           ELSE Some(PathShape(fr.cut_index, fr.xform, rv.raw, rp.raw,
                               rv.items, rp.items))
      [] fr.shape_type = "Bitmap" ->
           Some(BitmapShape(fr.cut_index, fr.xform, fr.w, fr.h, fr.data))
      [] fr.shape_type = "Group" ->
           Some(GroupShape(fr.cut_index, fr.xform, fr.children))
      [] OTHER -> None

\* a builder that drops a Path without primitives too
BuildShapeNeedsPrimitives(fr, rv, rp) ==
    CASE fr.shape_type = "Rect" ->
           Some(RectShape(fr.cut_index, fr.xform, fr.w, fr.h, fr.cr))
      [] fr.shape_type = "Ellipse" ->
           Some(EllipseShape(fr.cut_index, fr.xform, fr.rx, fr.ry))
      [] fr.shape_type = "Path" ->
           IF rv.items = <<>> \/ rp.items = <<>> THEN None
           ELSE Some(PathShape(fr.cut_index, fr.xform, rv.raw, rp.raw,
                               rv.items, rp.items))
      [] fr.shape_type = "Bitmap" ->
           Some(BitmapShape(fr.cut_index, fr.xform, fr.w, fr.h, fr.data))
      [] fr.shape_type = "Group" ->
           IF fr.children = <<>> THEN None
           ELSE Some(GroupShape(fr.cut_index, fr.xform, fr.children))
      [] OTHER -> None

\* a Text that is never replaced
UsesBackupPathNever(fr) == FALSE

\* a resolution whose cache keeps the first definition of an ID
ResolveVertsKeepsFirst(fr, vertex_cache) ==
    IF fr.vert_list # <<>>
    THEN LET verts == parse_vert_list(fr.vert_list) IN
         [items |-> verts, raw |-> fr.vert_list, warn |-> FALSE,
          cache |-> IF IsSome(fr.vert_id) /\ vertex_cache[Unwrap(fr.vert_id)] = None
                    THEN [vertex_cache EXCEPT ![Unwrap(fr.vert_id)] =
                              Some([raw |-> fr.vert_list, items |-> verts])]
                    ELSE vertex_cache]
    ELSE IF IsSome(fr.vert_id)
    THEN LET hit == vertex_cache[Unwrap(fr.vert_id)] IN
         IF IsSome(hit)
         THEN [items |-> Unwrap(hit).items, raw |-> Unwrap(hit).raw,
               warn |-> FALSE, cache |-> vertex_cache]
         ELSE [items |-> <<>>, raw |-> <<>>, warn |-> TRUE, cache |-> vertex_cache]
    ELSE [items |-> <<>>, raw |-> <<>>, warn |-> FALSE, cache |-> vertex_cache]

\* "Handle VertID/PrimID caching", the VertList half: the resolved list,
\* its raw text, the cache afterwards, and whether the warning was logged
ResolveVerts(fr, vertex_cache) ==
    IF fr.vert_list # <<>>
    THEN LET verts == parse_vert_list(fr.vert_list) IN
         [items |-> verts, raw |-> fr.vert_list, warn |-> FALSE,
          cache |-> IF IsSome(fr.vert_id)
                    THEN [vertex_cache EXCEPT ![Unwrap(fr.vert_id)] =
                              Some([raw |-> fr.vert_list, items |-> verts])]
                    ELSE vertex_cache]
    ELSE IF IsSome(fr.vert_id)
    THEN LET hit == vertex_cache[Unwrap(fr.vert_id)] IN
         IF IsSome(hit)
         THEN [items |-> Unwrap(hit).items, raw |-> Unwrap(hit).raw,
               warn |-> FALSE, cache |-> vertex_cache]
         ELSE [items |-> <<>>, raw |-> <<>>, warn |-> TRUE, cache |-> vertex_cache]
    ELSE [items |-> <<>>, raw |-> <<>>, warn |-> FALSE, cache |-> vertex_cache]

\* the PrimList half
ResolvePrims(fr, primitive_cache) ==
    IF fr.prim_list # <<>>
    THEN LET prims == IF fr.prim_list = LineClosed THEN <<>>
                      ELSE parse_prim_list(fr.prim_list) IN
         [items |-> prims, raw |-> fr.prim_list, warn |-> FALSE,
          cache |-> IF IsSome(fr.prim_id)
                    THEN [primitive_cache EXCEPT ![Unwrap(fr.prim_id)] =
                              Some([raw |-> fr.prim_list, items |-> prims])]
                    ELSE primitive_cache]
    ELSE IF IsSome(fr.prim_id)
    THEN LET hit == primitive_cache[Unwrap(fr.prim_id)] IN
         IF IsSome(hit)
         THEN [items |-> Unwrap(hit).items, raw |-> Unwrap(hit).raw,
               warn |-> FALSE, cache |-> primitive_cache]
         ELSE [items |-> <<>>, raw |-> <<>>, warn |-> TRUE, cache |-> primitive_cache]
    ELSE [items |-> <<>>, raw |-> <<>>, warn |-> FALSE, cache |-> primitive_cache]

\* "Create the shape based on type": Option<Shape>
BuildShape(fr, rv, rp) ==
    CASE fr.shape_type = "Rect" ->
           Some(RectShape(fr.cut_index, fr.xform, fr.w, fr.h, fr.cr))
      [] fr.shape_type = "Ellipse" ->
           Some(EllipseShape(fr.cut_index, fr.xform, fr.rx, fr.ry))
      [] fr.shape_type = "Path" ->
           IF rv.items = <<>> THEN None
           ELSE Some(PathShape(fr.cut_index, fr.xform, rv.raw, rp.raw,
                               rv.items, rp.items))
      [] fr.shape_type = "Bitmap" ->
           Some(BitmapShape(fr.cut_index, fr.xform, fr.w, fr.h, fr.data))
      [] fr.shape_type = "Group" ->
           IF fr.children = <<>> THEN None
           ELSE Some(GroupShape(fr.cut_index, fr.xform, fr.children))
      [] OTHER -> None

\* "If this is a Text with BackupPath, use the backup path shape instead"
UsesBackupPath(fr) ==
    fr.shape_type = "Text" /\ fr.has_backup_path /\ IsSome(fr.backup_path_shape)

\* a shape close that registers inline lists only for a shape it returns
FinishShapeKeptOnly(fr, vertex_cache, primitive_cache) ==
    IF UsesBackupPath(fr)
    THEN [result |-> fr.backup_path_shape, replaced |-> TRUE,
          vertex_cache |-> vertex_cache, primitive_cache |-> primitive_cache,
          rv |-> [items |-> <<>>, raw |-> <<>>, warn |-> FALSE, cache |-> vertex_cache],
          rp |-> [items |-> <<>>, raw |-> <<>>, warn |-> FALSE, cache |-> primitive_cache]]
    ELSE LET rv == ResolveVerts(fr, vertex_cache)
             rp == ResolvePrims(fr, primitive_cache)
             built == BuildShape(fr, rv, rp)
         IN  [result |-> built, replaced |-> FALSE,
              vertex_cache |-> IF built = None THEN vertex_cache ELSE rv.cache,
              primitive_cache |-> IF built = None THEN primitive_cache ELSE rp.cache,
              rv |-> rv, rp |-> rp]

\* parse_shape_inner after its event loop: the returned Option<Shape>, the
\* two caches afterwards and what was resolved on the way
FinishShape(fr, vertex_cache, primitive_cache) ==
    IF UsesBackupPath(fr)
    THEN [result |-> fr.backup_path_shape, replaced |-> TRUE,
          vertex_cache |-> vertex_cache, primitive_cache |-> primitive_cache,
          rv |-> [items |-> <<>>, raw |-> <<>>, warn |-> FALSE, cache |-> vertex_cache],
          rp |-> [items |-> <<>>, raw |-> <<>>, warn |-> FALSE, cache |-> primitive_cache]]
    ELSE LET rv == ResolveVerts(fr, vertex_cache)
             rp == ResolvePrims(fr, primitive_cache)
         IN  [result |-> BuildShape(fr, rv, rp), replaced |-> FALSE,
              vertex_cache |-> rv.cache, primitive_cache |-> rp.cache,
              rv |-> rv, rp |-> rp]

\* parse_shape_from_empty_element: Option<Shape>
parse_shape_from_empty_element(attrs) ==
    LET shape_type == AttrString(attrs.Type)
        cut_index == AttrNumOrZero(attrs.CutIndex)
    IN  CASE shape_type = "Rect" ->
               Some(RectShape(cut_index, Identity, AttrNumOrZero(attrs.W),
                              AttrNumOrZero(attrs.H), AttrNumOrZero(attrs.Cr)))
          [] shape_type = "Ellipse" ->
               Some(EllipseShape(cut_index, Identity, AttrNumOrZero(attrs.Rx),
                                 AttrNumOrZero(attrs.Ry)))
          [] OTHER -> None

\* what the caller of parse_shape_inner does with a returned child (the
\* `if in_backup_path .. else if in_children ..` of the Shape arms)
KeepChild(fr, child) ==
    IF child = None THEN fr
    ELSE IF fr.in_backup_path THEN [fr EXCEPT !.backup_path_shape = child]
    ELSE IF fr.in_children
         THEN [fr EXCEPT !.children = Append(@, Unwrap(child))]
         ELSE [fr EXCEPT !.held = child]

\* where KeepChild puts a child
ChildGoesTo(fr, child) ==
    IF child = None THEN "none"
    ELSE IF fr.in_backup_path THEN "backup"
    ELSE IF fr.in_children THEN "children" ELSE "discarded"

\* the caller after a nested parse_shape_inner returned: the Shape arm
\* (site "child") or the BackupPath arm (site "backup"), with `depth -= 1`
AfterReturn(caller, site, fin, callee) ==
    LET kept ==
          IF site = "backup"
          THEN [(IF fin.result # None
                 THEN [caller EXCEPT !.backup_path_shape = fin.result]
                 ELSE caller)
                EXCEPT !.in_backup_path = FALSE, !.bp_held = callee.held]
          ELSE KeepChild(caller, fin.result)
    IN  [kept EXCEPT !.depth = @ - 1]

(***************************************************************************)
(* The documents: what the XML reader may return next.                     *)
(***************************************************************************)
\* events the reader returns before Eof or an error
MaxEvents == 10

\* Shape and BackupPath elements of a document
MaxShapes == 3

\* CutSetting elements of a document
MaxCutSettings == 1

\* XForm, VertList and PrimList elements of a document
MaxXForms == 1

MaxVertLists == 2

MaxPrimLists == 1

\* events of a document that ends inside an open element
MaxTruncated == 4

VertTextA == <<"V", "1", " ", "2">>

VertTextB == <<"V", "3", " ", "4", "V", "5", " ", "6">>

\* a V token without its y numeral: decodes to no vertex
VertTextNoY == <<"V", "7">>

VertTexts == {VertTextA, VertTextB, VertTextNoY}

PrimTextLine == <<"L", "0", " ", "1">>

PrimTexts == {LineClosed, PrimTextLine}

XFormTextMove == <<NumTok(1), NumTok(0), NumTok(0), NumTok(1), NumTok(5), NumTok(7)>>

\* a transform text of five floats and a token that is no float
XFormTextBad == <<NumTok(1), NumTok(0), JunkTok, NumTok(1), NumTok(5), NumTok(7)>>

XFormTexts == {XFormTextMove, XFormTextBad}

Attrs(type, vert_id, prim_id, has_backup_path) ==
    [NoAttrs EXCEPT !.Type = type, !.VertID = vert_id, !.PrimID = prim_id,
                    !.HasBackupPath = has_backup_path]

Id0 == Some(NumTok(0))

\* <Shape Type="Path" VertID="0" PrimID="0">: defines ID 0 when its body
\* holds the lists, refers to it when not
HeadPathIds == Attrs(Some("Path"), Id0, Id0, None)

\* a Path whose VertID and CutIndex are no numbers, and without PrimID
HeadPathBadId == [Attrs(Some("Path"), Some(JunkTok), None, None) EXCEPT !.CutIndex = Some(JunkTok)]

HeadGroup == Attrs(Some("Group"), None, None, None)

HeadText == Attrs(Some("Text"), Id0, None, Some("1"))

HeadTextNoBackup == Attrs(Some("Text"), None, None, Some("0"))

HeadRect == [Attrs(Some("Rect"), None, None, None) EXCEPT !.W = Some(NumTok(4)), !.H = Some(NumTok(2))]

\* no Type attribute at all
HeadNoType == Attrs(None, Id0, None, None)

\* the attribute lists of the Shape elements of the documents
ShapeAttrs ==
    {HeadPathIds, HeadPathBadId, HeadGroup, HeadText, HeadTextNoBackup, HeadRect,
     HeadNoType}

\* ... of the self-closing Shape elements
EmptyShapeAttrs == {HeadPathIds, HeadRect}

\* ... of the BackupPath elements
BackupPathAttrs == {HeadPathIds, HeadRect, HeadNoType}

IndexAttrs == {[NoAttrs EXCEPT !.Value = v] : v \in {None, Some(NumTok(1)), Some(JunkTok)}}

Ev(k, tag, attrs, text) == [k |-> k, tag |-> tag, attrs |-> attrs, text |-> text]

StartOf(tag) == Ev("Start", tag, NoAttrs, <<>>)

EndOf(tag) == Ev("End", tag, NoAttrs, <<>>)

Top(seq) == seq[Len(seq)]

Front(seq) == SubSeq(seq, 1, Len(seq) - 1)

\* the children of a shape body come in this order, each at most once
StageOf(tag) ==
    CASE tag = "XForm" -> 1 [] tag = "VertList" -> 2 [] tag = "PrimList" -> 3
      [] tag = "BackupPath" -> 4 [] tag = "Children" -> 5 [] tag = "Shape" -> 6
      [] OTHER -> 0

\* ... and these are the children a body of a shape of each Type has: lists
\* in Path and Text shapes, a BackupPath in Text shapes, Children in Groups;
\* a shape without Type has lists, Children and a Shape outside Children
BodyTags(type) ==
    CASE type = "Path" -> {"XForm", "VertList", "PrimList"}
      [] type = "Text" -> {"VertList", "BackupPath"}
      [] type = "Group" -> {"XForm", "Children"}
      [] type = "Rect" -> {"XForm"}
      [] OTHER -> {"VertList", "Children", "Shape"}

\* an open element: its tag, and of a Shape or BackupPath its Type
\* attribute and how far its body has come
Open(tag, type) == [tag |-> tag, type |-> type, stage |-> 0]

\* the events a document may continue with, given the open elements
\* (r.open, innermost last)
BodyEvents(r) ==
    LET top == IF r.open = <<>> THEN Open("", "") ELSE Top(r.open)
        shapes == IF r.shapes = 0 THEN {}
                  ELSE {Ev("Start", "Shape", a, <<>>) : a \in ShapeAttrs}
                         \cup {Ev("Empty", "Shape", a, <<>>) : a \in EmptyShapeAttrs}
        backups == IF r.shapes = 0 THEN {}
                   ELSE {Ev("Start", "BackupPath", a, <<>>) : a \in BackupPathAttrs}
        cuts == IF r.cuts = 0 THEN {} ELSE {StartOf("CutSetting")}
        close == IF r.open = <<>> THEN {} ELSE {EndOf(top.tag)}
        may(t) == /\ t \in BodyTags(top.type)
                  /\ StageOf(t) > top.stage
                  /\ t = "XForm" => r.xforms > 0
                  /\ t = "VertList" => r.verts > 0
                  /\ t = "PrimList" => r.prims > 0
    IN  CASE top.tag = "" ->
               shapes \cup cuts
                 \cup (IF r.fuel = MaxEvents THEN {StartOf("LightBurnProject")} ELSE {})
          [] top.tag = "LightBurnProject" -> shapes \cup cuts \cup close
          [] top.tag = "CutSetting" ->
               {Ev(k, "index", a, <<>>) : k \in {"Start", "Empty"}, a \in IndexAttrs}
                 \cup close
          [] top.tag \in {"Shape", "BackupPath"} ->
               close
                 \cup {StartOf(t) : t \in {t \in {"XForm", "VertList", "PrimList", "Children"} : may(t)}}
                 \cup (IF may("BackupPath") THEN backups ELSE {})
                 \cup (IF may("Shape") THEN shapes ELSE {})
          [] top.tag = "Children" -> shapes \cup close
          [] top.tag = "XForm" ->
               close \cup (IF r.text THEN {}
                           ELSE {Ev("Text", "", NoAttrs, t) : t \in XFormTexts})
          [] top.tag = "VertList" ->
               close \cup (IF r.text THEN {}
                           ELSE {Ev("Text", "", NoAttrs, t) : t \in VertTexts})
          [] top.tag = "PrimList" ->
               close \cup (IF r.text THEN {}
                           ELSE {Ev("Text", "", NoAttrs, t) : t \in PrimTexts})
          [] OTHER -> close

\* what reader.read_event_into may return in reader state r: Eof for good
\* once the input has ended, else the next event, a malformation, or the
\* end of the input (inside an open element: of a short document only)
ReaderEvents(r) ==
    IF r.eof THEN {Ev("Eof", "", NoAttrs, <<>>)}
    ELSE {Ev("Err", "", NoAttrs, <<>>)}
           \cup (IF r.open = <<>> \/ MaxEvents - r.fuel <= MaxTruncated
                 THEN {Ev("Eof", "", NoAttrs, <<>>)} ELSE {})
           \cup (IF r.fuel = 0 THEN {} ELSE BodyEvents(r))

\* the enclosing shape body has reached the stage of `tag`
Staged(open, tag) ==
    IF open # <<>> /\ Top(open).tag \in {"Shape", "BackupPath"}
    THEN Append(Front(open), [Top(open) EXCEPT !.stage = StageOf(tag)])
    ELSE open

\* the reader after returning ev
ReaderAfter(r, ev) ==
    CASE ev.k = "Start" ->
           [r EXCEPT !.open = Append(Staged(@, ev.tag), Open(ev.tag, AttrString(ev.attrs.Type))),
                     !.text = FALSE, !.fuel = @ - 1,
                     !.shapes = IF ev.tag \in {"Shape", "BackupPath"} THEN @ - 1 ELSE @,
                     !.cuts = IF ev.tag = "CutSetting" THEN @ - 1 ELSE @,
                     !.xforms = IF ev.tag = "XForm" THEN @ - 1 ELSE @,
                     !.verts = IF ev.tag = "VertList" THEN @ - 1 ELSE @,
                     !.prims = IF ev.tag = "PrimList" THEN @ - 1 ELSE @]
      [] ev.k = "Empty" ->
           [r EXCEPT !.open = Staged(@, ev.tag), !.fuel = @ - 1, !.text = FALSE,
                     !.shapes = IF ev.tag = "Shape" THEN @ - 1 ELSE @]
      [] ev.k = "Text" -> [r EXCEPT !.text = TRUE, !.fuel = @ - 1]
      [] ev.k = "End" -> [r EXCEPT !.open = Front(@), !.text = FALSE, !.fuel = @ - 1]
      [] ev.k = "Eof" -> [r EXCEPT !.eof = TRUE]
      [] ev.k = "Err" -> [r EXCEPT !.err = TRUE]

(***************************************************************************)
(* State of parse_lbrn2_complete.                                          *)
(***************************************************************************)
VARIABLES
    rd,               \* the reader: open elements, what is left of the bounds
    stack,            \* the activations of parse_shape_inner, innermost last
    cut,              \* Some(locals of parse_cut_setting_inner) while it runs
    vertex_cache,     \* ID -> Option<(raw text, vertices)>
    primitive_cache,  \* ID -> Option<(raw text, primitives)>
    project,          \* the LightBurnProject under construction
    result,           \* None while parsing, then Some(Ok(project) / Err(message))
    last,             \* history: the event just handled and what it produced
    hist,             \* history: the inline definitions of the document so far,
                      \* and the kinds of malformed data met (bad)
    pth,              \* one call of generate_path_data
    svg               \* one call of lbrn2_to_svg and of get_transformed_bounds

parserVars ==
    <<rd, stack, cut, vertex_cache, primitive_cache, project, result, last, hist>>

\* the state of the converter's calls while the parser runs
converterVars == <<pth, svg>>

EmptyProject ==
    [app_version |-> "", format_version |-> "", cut_settings |-> <<>>, shapes |-> <<>>]

NoLast == [k |-> "", tag |-> "", closed |-> None, empty |-> None]

NoHist ==
    [seenV |-> {}, seenP |-> {},
     defsV |-> [k \in IdSpace |-> {}], defsP |-> [k \in IdSpace |-> {}],
     regV |-> [k \in IdSpace |-> None], regP |-> [k \in IdSpace |-> None],
     newestV |-> [k \in IdSpace |-> None], newestP |-> [k \in IdSpace |-> None],
     bad |-> {}]

ParserInit ==
    /\ rd = [open |-> <<>>, text |-> FALSE, fuel |-> MaxEvents, shapes |-> MaxShapes,
             cuts |-> MaxCutSettings, xforms |-> MaxXForms, verts |-> MaxVertLists,
             prims |-> MaxPrimLists, eof |-> FALSE, err |-> FALSE]
    /\ stack = <<>>
    /\ cut = None
    /\ vertex_cache = EmptyCache
    /\ primitive_cache = EmptyCache
    /\ project = EmptyProject
    /\ result = None
    /\ last = NoLast
    /\ hist = NoHist

Parsing == result = None

AtTopLevel == Parsing /\ stack = <<>> /\ cut = None

InCutSetting == Parsing /\ cut # None

InShape == Parsing /\ stack # <<>>

Offered == ReaderEvents(rd)

Seen(ev) == [NoLast EXCEPT !.k = ev.k, !.tag = ev.tag]

\* history: what was defined when the activation with locals fr started
Born(fr) ==
    [fr EXCEPT !.known = [V |-> {k \in IdSpace : hist.defsV[k] # {}},
                          P |-> {k \in IdSpace : hist.defsP[k] # {}}]]

\* history: an attribute that is no number has been read
HistAfterAttrs(h, attrs) ==
    IF \E n \in {"CutIndex", "W", "H", "Cr", "Rx", "Ry", "VertID", "PrimID"} :
          IsSome(attrs[n]) /\ ~Unwrap(attrs[n]).ok
    THEN [h EXCEPT !.bad = @ \cup {"attribute"}] ELSE h

\* `Err(e) => return Err(format!(..))`, propagated by `?` through every
\* caller: the locals of all activations are dropped
Fail(ev, message) ==
    /\ rd' = ReaderAfter(rd, ev)
    /\ result' = Some([ok |-> FALSE, error |-> message])
    /\ stack' = <<>>
    /\ cut' = None
    /\ vertex_cache' = EmptyCache
    /\ primitive_cache' = EmptyCache
    /\ project' = EmptyProject
    /\ last' = Seen(ev)
    /\ hist' = NoHist
    /\ UNCHANGED converterVars

\* ---- the loop of parse_lbrn2_complete ----
TopProject ==
    /\ AtTopLevel
    /\ \E ev \in Offered :
        /\ ev.k = "Start" /\ ev.tag = "LightBurnProject"
        /\ rd' = ReaderAfter(rd, ev)
        /\ project' = [project EXCEPT !.app_version = AttrString(ev.attrs.AppVersion),
                                      !.format_version = AttrString(ev.attrs.FormatVersion)]
        /\ last' = Seen(ev)
    /\ UNCHANGED <<stack, cut, vertex_cache, primitive_cache, result, hist, converterVars>>

TopCutSetting ==
    /\ AtTopLevel
    /\ \E ev \in Offered :
        /\ ev.k = "Start" /\ ev.tag = "CutSetting"
        /\ rd' = ReaderAfter(rd, ev)
        /\ cut' = Some([index |-> 0, depth |-> 1])
        /\ last' = Seen(ev)
    /\ UNCHANGED <<stack, vertex_cache, primitive_cache, project, result, hist, converterVars>>

TopShape ==
    /\ AtTopLevel
    /\ \E ev \in Offered :
        /\ ev.k = "Start" /\ ev.tag = "Shape"
        /\ rd' = ReaderAfter(rd, ev)
        /\ stack' = <<Born(NewFrame("top", ev.attrs))>>
        /\ last' = Seen(ev)
        /\ hist' = HistAfterAttrs(hist, ev.attrs)
    /\ UNCHANGED <<cut, vertex_cache, primitive_cache, project, result, converterVars>>

TopEmptyShape ==
    /\ AtTopLevel
    /\ \E ev \in Offered :
        /\ ev.k = "Empty" /\ ev.tag = "Shape"
        /\ rd' = ReaderAfter(rd, ev)
        /\ hist' = HistAfterAttrs(hist, ev.attrs)
        /\ LET shape == parse_shape_from_empty_element(ev.attrs) IN
           /\ project' = IF shape = None THEN project
                         ELSE [project EXCEPT !.shapes = Append(@, Unwrap(shape))]
           /\ last' = [Seen(ev) EXCEPT !.empty =
                          Some([attrs |-> ev.attrs, result |-> shape,
                                to |-> IF shape = None THEN "none" ELSE "shapes"])]
    /\ UNCHANGED <<stack, cut, vertex_cache, primitive_cache, result, converterVars>>

\* `_ => {}`: End events at the top level
TopEnd ==
    /\ AtTopLevel
    /\ \E ev \in Offered :
        /\ ev.k = "End"
        /\ rd' = ReaderAfter(rd, ev)
        /\ last' = Seen(ev)
    /\ UNCHANGED <<stack, cut, vertex_cache, primitive_cache, project, result, hist, converterVars>>

TopEof ==
    /\ AtTopLevel
    /\ \E ev \in Offered :
        /\ ev.k = "Eof"
        /\ rd' = ReaderAfter(rd, ev)
        /\ result' = Some([ok |-> TRUE, project |-> project])
        /\ last' = Seen(ev)
    /\ UNCHANGED <<stack, cut, vertex_cache, primitive_cache, project, hist, converterVars>>

TopErr ==
    /\ AtTopLevel
    /\ \E ev \in Offered : ev.k = "Err" /\ Fail(ev, "XML parsing error")

\* ---- the loop of parse_cut_setting_inner ----
IndexOf(ev, index) ==
    IF ev.tag = "index" /\ IsSome(ev.attrs.Value) THEN AttrNumOrZero(ev.attrs.Value)
    ELSE index

CutStart ==
    /\ InCutSetting
    /\ \E ev \in Offered :
        /\ ev.k = "Start"
        /\ rd' = ReaderAfter(rd, ev)
        /\ cut' = Some([index |-> IndexOf(ev, Unwrap(cut).index),
                        depth |-> Unwrap(cut).depth + 1])
        /\ last' = Seen(ev)
    /\ UNCHANGED <<stack, vertex_cache, primitive_cache, project, result, hist, converterVars>>

CutEmpty ==
    /\ InCutSetting
    /\ \E ev \in Offered :
        /\ ev.k = "Empty"
        /\ rd' = ReaderAfter(rd, ev)
        /\ cut' = Some([Unwrap(cut) EXCEPT !.index = IndexOf(ev, @)])
        /\ last' = Seen(ev)
    /\ UNCHANGED <<stack, vertex_cache, primitive_cache, project, result, hist, converterVars>>

\* Ok(CutSetting {..}) pushed by the caller
CutSettingOf(c) == [index |-> c.index, name |-> "", color |-> None, stroke_width |-> None]

CutEnd ==
    /\ InCutSetting
    /\ \E ev \in Offered :
        /\ ev.k = "End"
        /\ rd' = ReaderAfter(rd, ev)
        /\ last' = Seen(ev)
    /\ IF Unwrap(cut).depth = 1
       THEN /\ cut' = None
            /\ project' = [project EXCEPT !.cut_settings =
                              Append(@, CutSettingOf(Unwrap(cut)))]
       ELSE /\ cut' = Some([Unwrap(cut) EXCEPT !.depth = @ - 1])
            /\ UNCHANGED project
    /\ UNCHANGED <<stack, vertex_cache, primitive_cache, result, hist, converterVars>>

CutEof ==
    /\ InCutSetting
    /\ \E ev \in Offered :
        /\ ev.k = "Eof"
        /\ rd' = ReaderAfter(rd, ev)
        /\ last' = Seen(ev)
    /\ cut' = None
    /\ project' = [project EXCEPT !.cut_settings = Append(@, CutSettingOf(Unwrap(cut)))]
    /\ UNCHANGED <<stack, vertex_cache, primitive_cache, result, hist, converterVars>>

CutErr ==
    /\ InCutSetting
    /\ \E ev \in Offered : ev.k = "Err" /\ Fail(ev, "Error parsing CutSetting")

\* ---- the loop of parse_shape_inner, innermost activation ----
Cur == Top(stack)

ReplaceCur(fr) == Append(Front(stack), fr)

\* Start: `depth += 1; current_tag = tag`
Entered(fr, tag) == [fr EXCEPT !.depth = @ + 1, !.current_tag = tag]

ShChildren ==
    /\ InShape
    /\ \E ev \in Offered :
        /\ ev.k = "Start" /\ ev.tag = "Children"
        /\ rd' = ReaderAfter(rd, ev)
        /\ stack' = ReplaceCur([Entered(Cur, ev.tag) EXCEPT !.in_children = TRUE])
        /\ last' = Seen(ev)
    /\ UNCHANGED <<cut, vertex_cache, primitive_cache, project, result, hist, converterVars>>

\* a BackupPath element carries the attributes of the backup shape: a
\* nested activation parses its body
ShBackupPath ==
    /\ InShape
    /\ \E ev \in Offered :
        /\ ev.k = "Start" /\ ev.tag = "BackupPath"
        /\ rd' = ReaderAfter(rd, ev)
        /\ stack' = Append(ReplaceCur(Entered(Cur, ev.tag)), Born(NewFrame("backup", ev.attrs)))
        /\ last' = Seen(ev)
        /\ hist' = HistAfterAttrs(hist, ev.attrs)
    /\ UNCHANGED <<cut, vertex_cache, primitive_cache, project, result, converterVars>>

ShShape ==
    /\ InShape
    /\ \E ev \in Offered :
        /\ ev.k = "Start" /\ ev.tag = "Shape"
        /\ rd' = ReaderAfter(rd, ev)
        /\ stack' = Append(ReplaceCur(Entered(Cur, ev.tag)), Born(NewFrame("child", ev.attrs)))
        /\ last' = Seen(ev)
        /\ hist' = HistAfterAttrs(hist, ev.attrs)
    /\ UNCHANGED <<cut, vertex_cache, primitive_cache, project, result, converterVars>>

\* any other start tag (XForm, VertList, PrimList, Data, ...)
ShOtherStart ==
    /\ InShape
    /\ \E ev \in Offered :
        /\ ev.k = "Start" /\ ev.tag \notin {"Children", "BackupPath", "Shape"}
        /\ rd' = ReaderAfter(rd, ev)
        /\ stack' = ReplaceCur(Entered(Cur, ev.tag))
        /\ last' = Seen(ev)
    /\ UNCHANGED <<cut, vertex_cache, primitive_cache, project, result, hist, converterVars>>

ShEmptyShape ==
    /\ InShape
    /\ \E ev \in Offered :
        /\ ev.k = "Empty" /\ ev.tag = "Shape"
        /\ rd' = ReaderAfter(rd, ev)
        /\ hist' = HistAfterAttrs(hist, ev.attrs)
        /\ LET shape == parse_shape_from_empty_element(ev.attrs) IN
           /\ stack' = ReplaceCur(KeepChild(Cur, shape))
           /\ last' = [Seen(ev) EXCEPT !.empty =
                          Some([attrs |-> ev.attrs, result |-> shape,
                                to |-> ChildGoesTo(Cur, shape)])]
    /\ UNCHANGED <<cut, vertex_cache, primitive_cache, project, result, converterVars>>

\* Text: `match current_tag`
WithText(fr, text) ==
    CASE fr.current_tag = "XForm" -> [fr EXCEPT !.xform = parse_xform(text)]
      [] fr.current_tag = "VertList" -> [fr EXCEPT !.vert_list = text]
      [] fr.current_tag = "PrimList" -> [fr EXCEPT !.prim_list = text]
      [] fr.current_tag = "Data" -> [fr EXCEPT !.data = text]
      [] OTHER -> fr

\* history: an inline definition of an ID has been read
HistAfterText(h, fr, text) ==
    [h EXCEPT
       !.bad = IF fr.current_tag = "XForm" /\ Len(SelectSeq(text, LAMBDA t : t.ok)) # 6
               THEN @ \cup {"xform"} ELSE @,
       !.seenV = IF fr.current_tag = "VertList" /\ IsSome(fr.vert_id)
                 THEN @ \cup {Unwrap(fr.vert_id)} ELSE @,
       !.seenP = IF fr.current_tag = "PrimList" /\ IsSome(fr.prim_id)
                 THEN @ \cup {Unwrap(fr.prim_id)} ELSE @]

ShText ==
    /\ InShape
    /\ \E ev \in Offered :
        /\ ev.k = "Text"
        /\ rd' = ReaderAfter(rd, ev)
        /\ stack' = ReplaceCur(WithText(Cur, ev.text))
        /\ last' = Seen(ev)
        /\ hist' = HistAfterText(hist, Cur, ev.text)
    /\ UNCHANGED <<cut, vertex_cache, primitive_cache, project, result, converterVars>>

\* End: `depth -= 1`, the flags, `current_tag.clear()`
Left(fr, tag) ==
    [fr EXCEPT !.depth = @ - 1,
               !.in_children = IF tag = "Children" THEN FALSE ELSE @,
               !.in_backup_path = IF tag = "BackupPath" THEN FALSE ELSE @,
               !.current_tag = ""]

\* history: the shape of activation fr closed; its inline lists count as
\* definitions (defs, the newest of them in newest), and as registered ones
\* (reg) unless the shape was replaced by its backup path
HistAfterClose(h, fr, fin) ==
    LET defV == fr.vert_list # <<>> /\ IsSome(fr.vert_id)
        defP == fr.prim_list # <<>> /\ IsSome(fr.prim_id)
        known == fr.shape_type \in {"Rect", "Ellipse", "Path", "Bitmap", "Group", "Text"}
    IN  [h EXCEPT
           !.bad = @ \cup (IF ~fin.replaced /\ (fin.rv.warn \/ fin.rp.warn)
                           THEN {"cache"} ELSE {})
                     \cup (IF ~known THEN {"type"} ELSE {})
                     \cup (IF known /\ fin.result = None THEN {"empty"} ELSE {}),
           !.defsV = IF defV THEN [@ EXCEPT ![Unwrap(fr.vert_id)] = @ \cup {fr.vert_list}]
                     ELSE @,
           !.defsP = IF defP THEN [@ EXCEPT ![Unwrap(fr.prim_id)] = @ \cup {fr.prim_list}]
                     ELSE @,
           !.newestV = IF defV THEN [@ EXCEPT ![Unwrap(fr.vert_id)] = Some(fr.vert_list)]
                       ELSE @,
           !.newestP = IF defP THEN [@ EXCEPT ![Unwrap(fr.prim_id)] = Some(fr.prim_list)]
                       ELSE @,
           !.regV = IF defV /\ ~fin.replaced
                    THEN [@ EXCEPT ![Unwrap(fr.vert_id)] = Some(fr.vert_list)] ELSE @,
           !.regP = IF defP /\ ~fin.replaced
                    THEN [@ EXCEPT ![Unwrap(fr.prim_id)] = Some(fr.prim_list)] ELSE @]

\* the caller of the innermost activation (locals fr) receives its return
\* value fin and stores or drops the shape
Returned(ev, fr, fin) ==
    LET to == IF fr.site = "top" THEN (IF fin.result = None THEN "none" ELSE "shapes")
              ELSE IF fr.site = "backup"
                   THEN (IF fin.result = None THEN "none" ELSE "backup")
              ELSE ChildGoesTo(stack[Len(stack) - 1], fin.result)
    IN  /\ vertex_cache' = fin.vertex_cache
        /\ primitive_cache' = fin.primitive_cache
        /\ IF fr.site = "top"
           THEN /\ stack' = <<>>
                /\ project' = IF fin.result = None THEN project
                              ELSE [project EXCEPT !.shapes = Append(@, Unwrap(fin.result))]
           ELSE /\ stack' = Append(SubSeq(stack, 1, Len(stack) - 2),
                                   AfterReturn(stack[Len(stack) - 1], fr.site, fin, fr))
                /\ UNCHANGED project
        /\ last' = [Seen(ev) EXCEPT !.closed =
                       Some([frame |-> fr, fin |-> fin, to |-> to,
                             level |-> Len(stack)])]
        /\ hist' = HistAfterClose(hist, fr, fin)

\* the innermost activation, with locals fr, leaves its loop and returns
\* FinishShape to its caller
Return(ev, fr) == Returned(ev, fr, FinishShape(fr, vertex_cache, primitive_cache))

ShEnd ==
    /\ InShape
    /\ \E ev \in Offered :
        /\ ev.k = "End"
        /\ rd' = ReaderAfter(rd, ev)
        /\ IF Cur.depth = 1
           THEN Return(ev, Left(Cur, ev.tag))
           ELSE /\ stack' = ReplaceCur(Left(Cur, ev.tag))
                /\ last' = Seen(ev)
                /\ UNCHANGED <<vertex_cache, primitive_cache, project, hist>>
    /\ UNCHANGED <<cut, result, converterVars>>

\* `Ok(Event::Eof) => break`
ShEof ==
    /\ InShape
    /\ \E ev \in Offered :
        /\ ev.k = "Eof"
        /\ rd' = ReaderAfter(rd, ev)
        /\ Return(ev, Cur)
    /\ UNCHANGED <<cut, result, converterVars>>

\* a loop that goes on after the reader's error
ShErrSkipped ==
    /\ InShape
    /\ \E ev \in Offered :
        /\ ev.k = "Err"
        /\ rd' = ReaderAfter(rd, ev)
        /\ last' = Seen(ev)
    /\ UNCHANGED <<stack, cut, vertex_cache, primitive_cache, project, result, hist, converterVars>>

ShErr ==
    /\ InShape
    /\ \E ev \in Offered : ev.k = "Err" /\ Fail(ev, "Error parsing Shape")

ParserNext ==
    \/ TopProject \/ TopCutSetting \/ TopShape \/ TopEmptyShape \/ TopEnd
    \/ TopEof \/ TopErr
    \/ CutStart \/ CutEmpty \/ CutEnd \/ CutEof \/ CutErr
    \/ ShChildren \/ ShBackupPath \/ ShShape \/ ShOtherStart \/ ShEmptyShape
    \/ ShText \/ ShEnd \/ ShEof \/ ShErr

(***************************************************************************)
(* path.rs: the d attribute of a Path.                                     *)
(***************************************************************************)
DigitChar(d) == <<"0", "1", "2", "3", "4", "5", "6", "7", "8", "9">>[d + 1]

RECURSIVE NatDigits(_)
\* the decimal digits of a natural number
NatDigits(n) ==
    IF n < 10 THEN <<DigitChar(n)>>
    ELSE Append(NatDigits(n \div 10), DigitChar(n % 10))

\* format!("{:.6}", n) of a whole number
FormatFixed6(n) ==
    (IF n < 0 THEN <<"-">> ELSE <<>>) \o NatDigits(IF n < 0 THEN -n ELSE n)
        \o <<".", "0", "0", "0", "0", "0", "0">>

\* f of path.rs
path_f(n) == FormatFixed6(n)

\* one command pushed onto d: `lead` is the blank, if any, before its letter
Cmd(op, lead, args) == [op |-> op, lead |-> lead, args |-> args]

\* `let mut d .. first_move_to_idx .. current_last_idx`, and the log
NewPathLoop ==
    [d |-> <<>>, first_move_to_idx |-> None, current_last_idx |-> None, log |-> <<>>]

\* a move before every primitive
MoveToAlways(lp, idx0, p0) ==
    [lp EXCEPT !.d = Append(@, Cmd("M", IF lp.first_move_to_idx = None THEN "" ELSE " ",
                                   <<path_f(p0.x), path_f(p0.y)>>)),
               !.first_move_to_idx = IF @ = None THEN Some(idx0) ELSE @]

\* the `if first_move_to_idx.is_none() .. else if current_last_idx != ..`
MoveTo(lp, idx0, p0) ==
    IF lp.first_move_to_idx = None
    THEN [lp EXCEPT !.d = Append(@, Cmd("M", "", <<path_f(p0.x), path_f(p0.y)>>)),
                    !.first_move_to_idx = Some(idx0)]
    ELSE IF lp.current_last_idx # Some(idx0)
    THEN [lp EXCEPT !.d = Append(@, Cmd("M", " ", <<path_f(p0.x), path_f(p0.y)>>))]
    ELSE lp

\* ` L{},{}` and `current_last_idx = Some(idx1)`
LineTo(lp, idx1, p1) ==
    [lp EXCEPT !.d = Append(@, Cmd("L", " ", <<path_f(p1.x), path_f(p1.y)>>)),
               !.current_last_idx = Some(idx1)]

\* ` C{},{} {},{} {},{}` and `current_last_idx = Some(idx1)`
CurveTo(lp, idx1, p0, p1) ==
    [lp EXCEPT !.d = Append(@, Cmd("C", " ",
                         <<path_f(Unwrap(p0.c0x)), path_f(Unwrap(p0.c0y)),
                           path_f(Unwrap(p1.c1x)), path_f(Unwrap(p1.c1y)),
                           path_f(p1.x), path_f(p1.y)>>)),
               !.current_last_idx = Some(idx1)]

\* a Line arm whose skip forgets where the pen is
LinePrimitiveLosesPen(lp, verts, prim) ==
    IF prim.start_idx >= Len(verts) \/ prim.end_idx >= Len(verts)
    THEN [lp EXCEPT !.log = Append(@, "Invalid indices for Line"),
                    !.current_last_idx = None]
    ELSE LineTo(MoveTo(lp, prim.start_idx, verts[prim.start_idx + 1]),
                prim.end_idx, verts[prim.end_idx + 1])

\* the Line arm of the loop (indices count from 0)
LinePrimitive(lp, verts, prim) ==
    IF prim.start_idx >= Len(verts) \/ prim.end_idx >= Len(verts)
    THEN [lp EXCEPT !.log = Append(@, "Invalid indices for Line")]
    ELSE LineTo(MoveTo(lp, prim.start_idx, verts[prim.start_idx + 1]),
                prim.end_idx, verts[prim.end_idx + 1])

\* a Bezier arm that takes the incoming control point of the start vertex
\* and the outgoing one of the end vertex
BezierPrimitiveSwapped(lp, verts, prim) ==
    IF prim.start_idx >= Len(verts) \/ prim.end_idx >= Len(verts)
    THEN [lp EXCEPT !.log = Append(@, "Invalid indices for Bezier")]
    ELSE LET p0 == verts[prim.start_idx + 1]
             p1 == verts[prim.end_idx + 1]
         IN  IF p0.c1x = None \/ p0.c1y = None \/ p1.c0x = None \/ p1.c0y = None
             THEN LineTo(MoveTo([lp EXCEPT !.log = Append(@, "Falling back to Line")],
                                prim.start_idx, p0),
                         prim.end_idx, p1)
             ELSE LET m == MoveTo(lp, prim.start_idx, p0) IN
                  [m EXCEPT !.d = Append(@, Cmd("C", " ",
                                    <<path_f(Unwrap(p0.c1x)), path_f(Unwrap(p0.c1y)),
                                      path_f(Unwrap(p1.c0x)), path_f(Unwrap(p1.c0y)),
                                      path_f(p1.x), path_f(p1.y)>>)),
                            !.current_last_idx = Some(prim.end_idx)]

\* the Bezier arm of the loop
BezierPrimitive(lp, verts, prim) ==
    IF prim.start_idx >= Len(verts) \/ prim.end_idx >= Len(verts)
    THEN [lp EXCEPT !.log = Append(@, "Invalid indices for Bezier")]
    ELSE LET p0 == verts[prim.start_idx + 1]
             p1 == verts[prim.end_idx + 1]
         IN  IF p0.c0x = None \/ p0.c0y = None \/ p1.c1x = None \/ p1.c1y = None
             THEN LineTo(MoveTo([lp EXCEPT !.log = Append(@, "Falling back to Line")],
                                prim.start_idx, p0),
                         prim.end_idx, p1)
             ELSE CurveTo(MoveTo(lp, prim.start_idx, p0), prim.end_idx, p0, p1)

\* one turn of `for prim in &path.parsed_primitives`
PrimitiveStep(lp, verts, prim) ==
    IF prim.kind = "Line" THEN LinePrimitive(lp, verts, prim)
    ELSE BezierPrimitive(lp, verts, prim)

\* a closure decided by the place of the pen, not by the index
ClosePathByPlace(lp) ==
    IF lp.d # <<>>
         /\ Head(lp.d).args = SubSeq(lp.d[Len(lp.d)].args, Len(lp.d[Len(lp.d)].args) - 1,
                                     Len(lp.d[Len(lp.d)].args))
    THEN Append(lp.d, Cmd("Z", "", <<>>))
    ELSE lp.d

\* "Close path if it ends where it started", and the return of d
ClosePath(lp) ==
    IF lp.first_move_to_idx # None /\ lp.current_last_idx # None
         /\ lp.first_move_to_idx = lp.current_last_idx /\ lp.d # <<>>
    THEN Append(lp.d, Cmd("Z", "", <<>>))
    ELSE lp.d

RECURSIVE LineClosedTail(_, _, _)
\* `for v in verts.iter().skip(1)`
LineClosedTail(verts, i, d) ==
    IF i > Len(verts) THEN d
    ELSE LineClosedTail(verts, i + 1,
             Append(d, Cmd("L", " ", <<path_f(verts[i].x), path_f(verts[i].y)>>)))

\* a polyline over the vertices that is left open
generate_open_path(path) ==
    LET verts == path.parsed_verts
        start == Cmd("M", "", <<path_f(verts[1].x), path_f(verts[1].y)>>)
    IN  IF verts = <<>> THEN [d |-> <<>>, log |-> <<"missing/empty, skipping">>]
        ELSE [d |-> LineClosedTail(verts, 2, <<start>>), log |-> <<>>]

\* generate_line_closed_path: [d, log]
generate_line_closed_path(path) ==
    LET verts == path.parsed_verts
        start == Cmd("M", "", <<path_f(verts[1].x), path_f(verts[1].y)>>)
    IN  IF verts = <<>> THEN [d |-> <<>>, log |-> <<"missing/empty, skipping">>]
        ELSE IF Len(verts) = 1
        THEN [d |-> <<start, Cmd("Z", "", <<>>)>>, log |-> <<>>]
        ELSE [d |-> Append(LineClosedTail(verts, 2, <<start>>), Cmd("Z", "", <<>>)),
              log |-> <<>>]

RECURSIVE PrimitivesFrom(_, _, _, _)
\* the whole `for` loop, from the i-th primitive
PrimitivesFrom(lp, verts, prims, i) ==
    IF i > Len(prims) THEN lp
    ELSE PrimitivesFrom(PrimitiveStep(lp, verts, prims[i]), verts, prims, i + 1)

\* generate_path_data: [d, log]
generate_path_data(path) ==
    IF path.prim_list = LineClosed THEN generate_line_closed_path(path)
    ELSE IF path.parsed_primitives = <<>> \/ path.parsed_verts = <<>>
    THEN [d |-> <<>>, log |-> <<"missing/empty, skipping">>]
    ELSE LET lp == PrimitivesFrom(NewPathLoop, path.parsed_verts,
                                  path.parsed_primitives, 1)
         IN  [d |-> ClosePath(lp), log |-> lp.log]

\* ---- the calls of generate_path_data ----
\* primitives of one path
MaxPrimitives == 3

\* two vertices without control points
VertTextPlain == <<"V", "0", " ", "0", "V", "4", " ", "0">>

\* two vertices with control points and a third without
VertTextCurved ==
    <<"V", "0", " ", "0", "c", "0", "x", "1", "c", "0", "y", "2",
      "c", "1", "x", "3", "c", "1", "y", "4",
      "V", "4", " ", "0", "c", "0", "x", "5", "c", "0", "y", "1",
      "c", "1", "x", "3", "c", "1", "y", "2",
      "V", "4", " ", "3">>

\* three vertices, the first and the last at the same place; the first has
\* only c0, the second only c0x and c1x, the third only c1
VertTextTwin ==
    <<"V", "0", " ", "0", "c", "0", "x", "1", "c", "0", "y", "2",
      "V", "4", " ", "0", "c", "0", "x", "5", "c", "1", "x", "3",
      "V", "0", " ", "0", "c", "1", "x", "3", "c", "1", "y", "4">>

PathVertTexts == {VertTextPlain, VertTextCurved, VertTextTwin}

PrimIndices == {0, 1, 2}

PrimChoices ==
    {Line(a, b) : a \in PrimIndices, b \in PrimIndices}
      \cup {Bezier(a, b) : a \in PrimIndices, b \in PrimIndices}

PrimLists == UNION {[1..n -> PrimChoices] : n \in 0..MaxPrimitives}

RECURSIVE PrimText(_)
\* the PrimList text of a list of primitives
PrimText(prims) ==
    IF prims = <<>> THEN <<>>
    ELSE <<IF Head(prims).kind = "Line" THEN "L" ELSE "B">>
           \o NatDigits(Head(prims).start_idx) \o <<" ">>
           \o NatDigits(Head(prims).end_idx) \o PrimText(Tail(prims))

\* a Path as the parser builds it from its two texts
PathOf(vert_list, prim_list) ==
    PathShape(0, Identity, vert_list, prim_list, parse_vert_list(vert_list),
              IF prim_list = LineClosed THEN <<>> ELSE parse_prim_list(prim_list))

\* a Path built by a caller of the library, not by the parser: the
\* sentinel next to a primitive list that is not empty
PathWithBoth ==
    PathShape(0, Identity, VertTextPlain, LineClosed, parse_vert_list(VertTextPlain),
              <<Line(1, 0)>>)

PathInputs ==
    {PathOf(v, PrimText(pl)) : v \in PathVertTexts, pl \in PrimLists}
      \cup {PathOf(v, LineClosed) :
               v \in PathVertTexts \cup {VertTextA, <<>>}}
      \cup {PathOf(<<>>, PrimTextLine), PathWithBoth}

PathIdle == [at |-> "idle"]

SvgIdle == [at |-> "idle"]

PathInit ==
    /\ ParserInit
    /\ svg = SvgIdle
    /\ pth \in {[at |-> "entry", path |-> q, i |-> 0, lp |-> NewPathLoop,
                 steps |-> <<>>, out |-> None] : q \in PathInputs}

\* "Handle LineClosed explicitly"
GenLineClosed ==
    /\ pth.at = "entry"
    /\ pth.path.prim_list = LineClosed
    /\ pth' = [pth EXCEPT !.at = "done",
                          !.out = Some(generate_line_closed_path(pth.path))]
    /\ UNCHANGED <<parserVars, svg>>

\* the early return on an empty list
GenSkip ==
    /\ pth.at = "entry"
    /\ pth.path.prim_list # LineClosed
    /\ pth.path.parsed_primitives = <<>> \/ pth.path.parsed_verts = <<>>
    /\ pth' = [pth EXCEPT !.at = "done",
                          !.out = Some([d |-> <<>>, log |-> <<"missing/empty, skipping">>])]
    /\ UNCHANGED <<parserVars, svg>>

GenEnter ==
    /\ pth.at = "entry"
    /\ pth.path.prim_list # LineClosed
    /\ pth.path.parsed_primitives # <<>> /\ pth.path.parsed_verts # <<>>
    /\ pth' = [pth EXCEPT !.at = "loop", !.i = 1, !.lp = NewPathLoop]
    /\ UNCHANGED <<parserVars, svg>>

\* history: the primitive of this turn and the commands the turn pushed
StepOf(prim, before, after) ==
    [prim |-> prim, added |-> SubSeq(after.d, Len(before.d) + 1, Len(after.d))]

GenLine ==
    /\ pth.at = "loop"
    /\ pth.i <= Len(pth.path.parsed_primitives)
    /\ pth.path.parsed_primitives[pth.i].kind = "Line"
    /\ LET prim == pth.path.parsed_primitives[pth.i]
           after == LinePrimitive(pth.lp, pth.path.parsed_verts, prim)
       IN  pth' = [pth EXCEPT !.lp = after, !.i = @ + 1,
                              !.steps = Append(@, StepOf(prim, pth.lp, after))]
    /\ UNCHANGED <<parserVars, svg>>

GenBezier ==
    /\ pth.at = "loop"
    /\ pth.i <= Len(pth.path.parsed_primitives)
    /\ pth.path.parsed_primitives[pth.i].kind = "Bezier"
    /\ LET prim == pth.path.parsed_primitives[pth.i]
           after == BezierPrimitive(pth.lp, pth.path.parsed_verts, prim)
       IN  pth' = [pth EXCEPT !.lp = after, !.i = @ + 1,
                              !.steps = Append(@, StepOf(prim, pth.lp, after))]
    /\ UNCHANGED <<parserVars, svg>>

GenReturn ==
    /\ pth.at = "loop"
    /\ pth.i > Len(pth.path.parsed_primitives)
    /\ pth' = [pth EXCEPT !.at = "done",
                          !.out = Some([d |-> ClosePath(pth.lp), log |-> pth.lp.log])]
    /\ UNCHANGED <<parserVars, svg>>

PathNext == GenLineClosed \/ GenSkip \/ GenEnter \/ GenLine \/ GenBezier \/ GenReturn

(***************************************************************************)
(* lbrn2/style.rs, svg.rs and bounds.rs: the SVG document and the bounds.  *)
(***************************************************************************)
DEFAULT_COLORS ==
    <<"#000000", "#FF0000", "#00AA00", "#0000FF", "#FF9900", "#9900FF", "#00AAAA", "#AAAA00">>

\* `cut_settings.iter().find(|cs| cs.index == cut_index)`
FindCutSetting(cut_settings, cut_index) ==
    LET hits == {i \in 1..Len(cut_settings) : cut_settings[i].index = cut_index} IN
    IF hits = {} THEN None
    ELSE Some(cut_settings[CHOOSE i \in hits : \A j \in hits : i <= j])

\* a style whose palette wraps around for a negative index
get_cut_setting_style_wrapping(cut_index, cut_settings) ==
    IF cut_settings = None \/ Unwrap(cut_settings) = <<>>
    THEN [stroke |-> "#000000", stroke_width |-> "0.050000mm", fill |-> "none"]
    ELSE LET cs == FindCutSetting(Unwrap(cut_settings), cut_index)
             color ==
               IF cs = None THEN "#000000"
               ELSE IF Unwrap(cs).color # None THEN Unwrap(Unwrap(cs).color)
               ELSE DEFAULT_COLORS[(Unwrap(cs).index % Len(DEFAULT_COLORS)) + 1]
         IN  [stroke |-> color,
              stroke_width |-> IF cs = None THEN "0.050000mm"
                               ELSE UnwrapOr(Unwrap(cs).stroke_width, "0.050000mm"),
              fill |-> "none"]

\* get_cut_setting_style: "stroke:{};stroke-width:{};fill:none"
get_cut_setting_style(cut_index, cut_settings) ==
    IF cut_settings = None \/ Unwrap(cut_settings) = <<>>
    THEN [stroke |-> "#000000", stroke_width |-> "0.050000mm", fill |-> "none"]
    ELSE LET cs == FindCutSetting(Unwrap(cut_settings), cut_index)
             color ==
               IF cs = None THEN "#000000"
               ELSE IF Unwrap(cs).color # None THEN Unwrap(Unwrap(cs).color)
               ELSE DEFAULT_COLORS[(IF Unwrap(cs).index >= 0
                                    THEN Unwrap(cs).index % Len(DEFAULT_COLORS)
                                    ELSE 0) + 1]
         IN  [stroke |-> color,
              stroke_width |-> IF cs = None THEN "0.050000mm"
                               ELSE UnwrapOr(Unwrap(cs).stroke_width, "0.050000mm"),
              fill |-> "none"]

\* f of svg.rs: -0 is written as 0
svg_f(n) == FormatFixed6(IF n = 0 THEN 0 ELSE n)

\* format_matrix: the six numbers of "matrix({} {} {} {} {} {})"
format_matrix(xform) ==
    <<svg_f(xform.a), svg_f(-xform.b), svg_f(xform.c),
      svg_f(-xform.d), svg_f(xform.e), svg_f(-xform.f)>>

\* n / 2.0, for the even sizes the shapes here have
Half(n) == n \div 2

\* String::new(): no element
NoElement == [tag |-> ""]

\* the arms of the leaves in shape_to_svg_element: [el, log]
LeafElement(shape, style, transform) ==
    CASE shape.kind = "Rect" ->
           [el |-> [tag |-> "rect", x |-> svg_f(-Half(shape.w)), y |-> svg_f(-Half(shape.h)),
                    width |-> svg_f(shape.w), height |-> svg_f(shape.h),
                    rx |-> IF shape.cr > 0 THEN Some(svg_f(shape.cr)) ELSE None,
                    ry |-> IF shape.cr > 0 THEN Some(svg_f(shape.cr)) ELSE None,
                    style |-> style, transform |-> transform],
            log |-> <<>>]
      [] shape.kind = "Ellipse" ->
           [el |-> IF shape.rx = shape.ry
                   THEN [tag |-> "circle", cx |-> "0", cy |-> "0", r |-> svg_f(shape.rx),
                         style |-> style, transform |-> transform]
                   ELSE [tag |-> "ellipse", cx |-> "0", cy |-> "0", rx |-> svg_f(shape.rx),
                         ry |-> svg_f(shape.ry), style |-> style, transform |-> transform],
            log |-> <<>>]
      [] shape.kind = "Path" ->
           IF shape.parsed_verts = <<>>
           THEN [el |-> NoElement, log |-> <<"Path shape with no vertices">>]
           ELSE LET g == generate_path_data(shape) IN
                IF g.d = <<>>
                THEN [el |-> NoElement,
                      log |-> Append(g.log, "Path shape with no valid primitives")]
                ELSE [el |-> [tag |-> "path", d |-> g.d, style |-> style,
                              transform |-> transform],
                      log |-> g.log]
      [] shape.kind = "Bitmap" ->
           IF shape.data = ""
           THEN [el |-> NoElement, log |-> <<"Bitmap shape missing Data">>]
           ELSE [el |-> [tag |-> "image", x |-> svg_f(-Half(shape.w)),
                         y |-> svg_f(-Half(shape.h)), width |-> svg_f(shape.w),
                         height |-> svg_f(shape.h), href |-> shape.data,
                         transform |-> transform],
                 log |-> <<>>]

\* a clone with the transforms composed the other way round
FlattenedChildReversed(group) ==
    [group.children[1] EXCEPT !.xform = Compose(group.children[1].xform, group.xform)]

\* "flatten transform into the child": the clone with the composed transform
FlattenedChild(group) ==
    [group.children[1] EXCEPT !.xform = Compose(group.xform, group.children[1].xform)]

\* `.filter(|s| !s.is_empty()).collect()` over the [el, log] of the children
Collected(rendered) ==
    [els |-> [k \in 1..Len(SelectSeq(rendered, LAMBDA r : r.el # NoElement)) |->
                 SelectSeq(rendered, LAMBDA r : r.el # NoElement)[k].el],
     log |-> LET RECURSIVE Logs(_)
                 Logs(i) == IF i > Len(rendered) THEN <<>>
                            ELSE rendered[i].log \o Logs(i + 1)
             IN  Logs(1)]

RECURSIVE shape_to_svg_element(_, _)
\* shape_to_svg_element: [el, log], el the element or NoElement, log what
\* the call pushed onto the log
shape_to_svg_element(shape, cut_settings) ==
    LET transform == format_matrix(shape.xform)
        style == get_cut_setting_style(shape.cut_index, cut_settings)
    IN  IF shape.kind # "Group" THEN LeafElement(shape, style, transform)
        ELSE IF shape.children = <<>>
        THEN [el |-> NoElement, log |-> <<"Group shape with no children">>]
        ELSE IF Len(shape.children) = 1
        THEN shape_to_svg_element(FlattenedChild(shape), cut_settings)
        ELSE LET content == Collected([i \in 1..Len(shape.children) |->
                               shape_to_svg_element(shape.children[i], cut_settings)])
             IN  [el |-> [tag |-> "g", transform |-> transform, content |-> content.els],
                  log |-> content.log]

\* Bounds::new
Bounds(min_x, min_y, max_x, max_y) ==
    [min_x |-> min_x, min_y |-> min_y, max_x |-> max_x, max_y |-> max_y]

Min(set) == CHOOSE m \in set : \A n \in set : m <= n

Max(set) == CHOOSE m \in set : \A n \in set : m >= n

\* Bounds::expand
Expand(self, other) ==
    Bounds(Min({self.min_x, other.min_x}), Min({self.min_y, other.min_y}),
           Max({self.max_x, other.max_x}), Max({self.max_y, other.max_y}))

\* the closure tx: "transform a point with the shape's transform and flip Y"
Tx(xform, pt) ==
    <<xform.a * pt[1] + xform.c * pt[2] + xform.e,
      -(xform.b * pt[1] + xform.d * pt[2] + xform.f)>>

\* the points a primitive pushes when a curve gives its end points only
PrimitiveEndPoints(verts, prim) ==
    LET p0 == verts[prim.start_idx + 1]
        p1 == verts[prim.end_idx + 1]
    IN  IF prim.kind = "Line"
        THEN (IF prim.start_idx < Len(verts) THEN <<<<p0.x, p0.y>>>> ELSE <<>>)
               \o (IF prim.end_idx < Len(verts) THEN <<<<p1.x, p1.y>>>> ELSE <<>>)
        ELSE IF prim.start_idx >= Len(verts) \/ prim.end_idx >= Len(verts) THEN <<>>
        ELSE <<<<p0.x, p0.y>>, <<p1.x, p1.y>>>>

\* the points one primitive of a Path pushes. For a curve with its four
\* control coordinates the code also pushes bezier_point at the roots of
\* the derivative; each of them is a point of the curve, a weighted mean
\* of p0, c0, c1 and p1 with weights in [0,1], so it lies in the box of
\* these four points and leaves the minima and maxima as they are: the
\* points here are the four that decide the box.
PrimitivePoints(verts, prim) ==
    LET p0 == verts[prim.start_idx + 1]
        p1 == verts[prim.end_idx + 1]
    IN  IF prim.kind = "Line"
        THEN (IF prim.start_idx < Len(verts) THEN <<<<p0.x, p0.y>>>> ELSE <<>>)
               \o (IF prim.end_idx < Len(verts) THEN <<<<p1.x, p1.y>>>> ELSE <<>>)
        ELSE IF prim.start_idx >= Len(verts) \/ prim.end_idx >= Len(verts) THEN <<>>
        ELSE <<<<p0.x, p0.y>>, <<p1.x, p1.y>>>>
               \o (IF p0.c0x # None /\ p0.c0y # None
                   THEN <<<<Unwrap(p0.c0x), Unwrap(p0.c0y)>>>> ELSE <<>>)
               \o (IF p1.c1x # None /\ p1.c1y # None
                   THEN <<<<Unwrap(p1.c1x), Unwrap(p1.c1y)>>>> ELSE <<>>)

RECURSIVE PathPoints(_, _, _)
\* `for prim in &path.parsed_primitives` of the bounds
PathPoints(verts, prims, i) ==
    IF i > Len(prims) THEN <<>>
    ELSE PrimitivePoints(verts, prims[i]) \o PathPoints(verts, prims, i + 1)

\* points_to_bound of a shape that is no Group (the 32 samples of an
\* Ellipse lie in the box of its centre and cardinal points)
points_to_bound(shape) ==
    CASE shape.kind \in {"Rect", "Bitmap"} ->
           <<<<-Half(shape.w), -Half(shape.h)>>, <<Half(shape.w), -Half(shape.h)>>,
             <<Half(shape.w), Half(shape.h)>>, <<-Half(shape.w), Half(shape.h)>>>>
      [] shape.kind = "Ellipse" ->
           <<<<0, 0>>, <<shape.rx, 0>>, <<-shape.rx, 0>>, <<0, shape.ry>>, <<0, -shape.ry>>>>
      [] shape.kind = "Path" ->
           IF shape.prim_list # LineClosed /\ shape.parsed_primitives # <<>>
           THEN PathPoints(shape.parsed_verts, shape.parsed_primitives, 1)
           ELSE [i \in 1..Len(shape.parsed_verts) |->
                    <<shape.parsed_verts[i].x, shape.parsed_verts[i].y>>]

\* a box of the origin where there is no point
BoundsOfPointsOrOrigin(xform, points) ==
    IF points = <<>> THEN Some([min_x |-> 0, min_y |-> 0, max_x |-> 0, max_y |-> 0])
    ELSE LET transformed == {Tx(xform, points[i]) : i \in 1..Len(points)} IN
         Some([min_x |-> Min({t[1] : t \in transformed}),
               min_y |-> Min({t[2] : t \in transformed}),
               max_x |-> Max({t[1] : t \in transformed}),
               max_y |-> Max({t[2] : t \in transformed})])

\* the box of the transformed points: Option<Bounds>
BoundsOfPoints(xform, points) ==
    IF points = <<>> THEN None
    ELSE LET transformed == {Tx(xform, points[i]) : i \in 1..Len(points)} IN
         Some(Bounds(Min({t[1] : t \in transformed}), Min({t[2] : t \in transformed}),
                     Max({t[1] : t \in transformed}), Max({t[2] : t \in transformed})))

RECURSIVE get_transformed_bounds(_)
\* get_transformed_bounds: Option<Bounds>
get_transformed_bounds(shape) ==
    IF shape.kind = "Group"
    THEN LET RECURSIVE Combined(_, _)
             \* `for child in &group.children`, with combined_bounds = acc
             Combined(i, acc) ==
                 IF i > Len(shape.children) THEN acc
                 ELSE LET temp_child ==
                            [shape.children[i] EXCEPT
                                !.xform = Compose(shape.xform, shape.children[i].xform)]
                          child_bounds == get_transformed_bounds(temp_child)
                      IN  Combined(i + 1,
                              IF child_bounds = None THEN acc
                              ELSE IF acc = None THEN child_bounds
                              ELSE Some(Expand(Unwrap(acc), Unwrap(child_bounds))))
         IN  IF shape.children = <<>> THEN None ELSE Combined(1, None)
    ELSE IF shape.kind = "Path" /\ shape.parsed_verts = <<>> THEN None
    ELSE BoundsOfPoints(shape.xform, points_to_bound(shape))

RECURSIVE ViewBoundsOfFirst(_, _, _)
\* a running box that stays the box of the first shape that has one
ViewBoundsOfFirst(shapes, i, acc) ==
    IF i > Len(shapes) THEN acc
    ELSE ViewBoundsOfFirst(shapes, i + 1,
             IF acc = None THEN get_transformed_bounds(shapes[i]) ELSE acc)

RECURSIVE ViewBounds(_, _, _)
\* `for shape in &project.shapes`: the running box, None while it is infinite
ViewBounds(shapes, i, acc) ==
    IF i > Len(shapes) THEN acc
    ELSE LET bounds == get_transformed_bounds(shapes[i]) IN
         ViewBounds(shapes, i + 1,
             IF bounds = None THEN acc
             ELSE IF acc = None THEN bounds
             ELSE Some(Expand(Unwrap(acc), Unwrap(bounds))))

\* lbrn2_to_svg: the document
lbrn2_to_svg(proj) ==
    IF proj.shapes = <<>>
    THEN [width |-> <<"1", "0", "0", "m", "m">>, height |-> <<"1", "0", "0", "m", "m">>,
          view_box |-> <<<<"0">>, <<"0">>, <<"1", "0", "0">>, <<"1", "0", "0">>>>,
          elements |-> <<[tag |-> "text", text |-> "No shapes found"]>>, log |-> <<>>]
    ELSE LET cut_settings == IF proj.cut_settings = <<>> THEN None
                             ELSE Some(proj.cut_settings)
             rendered == Collected([i \in 1..Len(proj.shapes) |->
                             shape_to_svg_element(proj.shapes[i], cut_settings)])
             box == UnwrapOr(ViewBounds(proj.shapes, 1, None), Bounds(0, -100, 100, 0))
             w == box.max_x - box.min_x
             h == box.max_y - box.min_y
         IN  [width |-> svg_f(w) \o <<"m", "m">>, height |-> svg_f(h) \o <<"m", "m">>,
              view_box |-> <<svg_f(box.min_x), svg_f(box.min_y), svg_f(w), svg_f(h)>>,
              elements |-> rendered.els, log |-> rendered.log]

\* ---- the calls of lbrn2_to_svg and get_transformed_bounds ----
\* shapes of one project, at all depths
MaxNodes == 4

XFormMove == [a |-> 1, b |-> 0, c |-> 0, d |-> 1, e |-> 5, f |-> 7]

\* a quarter turn and a shift
XFormTurn == [a |-> 0, b |-> 1, c |-> -1, d |-> 0, e |-> 3, f |-> 0]

XFormScale == [a |-> 2, b |-> 0, c |-> 0, d |-> 2, e |-> 0, f |-> 1]

GroupXForms == {XFormTurn, XFormScale}

\* a Rect, an Ellipse, a Path of one line and a Path without primitives
SvgLeaves ==
    {RectShape(0, XFormMove, 4, 2, 0),
     EllipseShape(1, XFormScale, 2, 1),
     [PathOf(VertTextPlain, PrimTextLine) EXCEPT !.xform = XFormMove, !.cut_index = 1],
     PathOf(VertTextPlain, <<>>)}

RECURSIVE Trees(_)
RECURSIVE Forests(_)
\* the shapes of n nodes
Trees(n) ==
    IF n = 1 THEN SvgLeaves \cup {GroupShape(2, x, <<>>) : x \in GroupXForms}
    ELSE {GroupShape(2, x, c) : x \in GroupXForms, c \in Forests(n - 1)}

\* the lists of shapes of n nodes in all
Forests(n) ==
    IF n = 0 THEN {<<>>}
    ELSE UNION {{<<t>> \o c : t \in Trees(k), c \in Forests(n - k)} : k \in 1..n}

SvgCutSettings ==
    <<[index |-> 0, name |-> "", color |-> None, stroke_width |-> None],
      [index |-> 1, name |-> "", color |-> Some("#123456"),
       stroke_width |-> Some("0.100000mm")],
      [index |-> 2, name |-> "", color |-> None, stroke_width |-> None]>>

SvgProjects ==
    {[EmptyProject EXCEPT !.shapes = c, !.cut_settings = SvgCutSettings] :
        c \in UNION {Forests(n) : n \in 0..MaxNodes}}

SvgInit ==
    /\ ParserInit
    /\ pth = PathIdle
    /\ svg \in {[at |-> "ready", project |-> q, out |-> None, bounds |-> None] :
                   q \in SvgProjects}

ToSvg ==
    /\ svg.at = "ready"
    /\ svg.out = None
    /\ svg' = [svg EXCEPT !.out = Some(lbrn2_to_svg(svg.project))]
    /\ UNCHANGED <<parserVars, pth>>

GetBounds ==
    /\ svg.at = "ready"
    /\ svg.bounds = None
    /\ svg' = [svg EXCEPT !.bounds =
                  Some([i \in 1..Len(svg.project.shapes) |->
                           get_transformed_bounds(svg.project.shapes[i])])]
    /\ UNCHANGED <<parserVars, pth>>

SvgNext == ToSvg \/ GetBounds

\* ---- the calls of get_cut_setting_style ----
\* entries of a settings table
MaxStyleEntries == 2

\* cut indices: negative, inside the palette, and beyond it
StyleIndices == {-1, 0, 3, 8, 9}

StyleEntries ==
    {[index |-> i, name |-> "", color |-> c, stroke_width |-> w] :
        i \in StyleIndices, c \in {None, Some("#123456")},
        w \in {None, Some("0.100000mm")}}

\* Option<&[CutSetting]>
StyleTables ==
    {None} \cup {Some(t) : t \in UNION {[1..n -> StyleEntries] : n \in 0..MaxStyleEntries}}

StyleInit ==
    /\ ParserInit
    /\ pth = PathIdle
    /\ svg \in {[at |-> "style", cut_index |-> i, cut_settings |-> t, out |-> None] :
                   i \in StyleIndices \cup {5}, t \in StyleTables}

GetStyle ==
    /\ svg.at = "style"
    /\ svg.out = None
    /\ svg' = [svg EXCEPT !.out = Some(get_cut_setting_style(svg.cut_index,
                                                             svg.cut_settings))]
    /\ UNCHANGED <<parserVars, pth>>

StyleNext == GetStyle

\* ---- the calls of XForm::compose and XForm::transform_point ----
\* a shear with a mirror
XFormShear == [a |-> 2, b |-> 1, c |-> 3, d |-> -1, e |-> 4, f |-> -2]

XFormChoices == {Identity, XFormMove, XFormTurn, XFormScale, XFormShear}

PointCoords == {-1, 0, 3}

ComposeInit ==
    /\ ParserInit
    /\ pth = PathIdle
    /\ svg \in {[at |-> "compose", self |-> s, other |-> o, x |-> x, y |-> y,
                  composed |-> None, nested |-> None] :
                   s \in XFormChoices, o \in XFormChoices,
                   x \in PointCoords, y \in PointCoords}

\* self.compose(other).transform_point(x, y)
PointByComposed ==
    /\ svg.at = "compose"
    /\ svg.composed = None
    /\ svg' = [svg EXCEPT !.composed =
                  Some(TransformPoint(Compose(svg.self, svg.other), svg.x, svg.y))]
    /\ UNCHANGED <<parserVars, pth>>

\* self.transform_point(other.transform_point(x, y))
PointByNesting ==
    /\ svg.at = "compose"
    /\ svg.nested = None
    /\ svg' = [svg EXCEPT !.nested =
                  Some(LET q == TransformPoint(svg.other, svg.x, svg.y)
                       IN  TransformPoint(svg.self, q[1], q[2]))]
    /\ UNCHANGED <<parserVars, pth>>

ComposeNext == PointByComposed \/ PointByNesting

\* ---- the calls of parse_xform ----
\* whitespace-separated tokens of an XForm text
MaxTokens == 7

XFormTokens == {NumTok(0), NumTok(1), NumTok(2), JunkTok}

XFormInit ==
    /\ ParserInit
    /\ pth = PathIdle
    /\ svg \in {[at |-> "xform", tokens |-> t, out |-> None] :
                   t \in UNION {[1..n -> XFormTokens] : n \in 0..MaxTokens}}

ParseXForm ==
    /\ svg.at = "xform"
    /\ svg.out = None
    /\ svg' = [svg EXCEPT !.out = Some([xform |-> parse_xform(svg.tokens),
                                        warned |-> parse_xform_warns(svg.tokens)])]
    /\ UNCHANGED <<parserVars, pth>>

XFormNext == ParseXForm

\* ---- the calls of get_transformed_bounds on one shape ----
\* nodes of the shape
MaxBoundsNodes == 3

\* two vertices whose control points lie far off the segment between them
VertTextSwing ==
    <<"V", "0", " ", "0", "c", "0", "x", "9", "c", "0", "y", "-", "6",
      "c", "1", "x", "-", "7", "c", "1", "y", "2",
      "V", "2", " ", "1", "c", "0", "x", "-", "5", "c", "0", "y", "8",
      "c", "1", "x", "6", "c", "1", "y", "9">>

\* every kind of leaf: with and without vertices, with primitives whose
\* indices are in range, half out of range and all out of range
BoundsLeaves ==
    {RectShape(0, XFormMove, 4, 2, 0),
     EllipseShape(0, XFormScale, 2, 1),
     BitmapShape(0, XFormTurn, 4, 2, "data"),
     [PathOf(VertTextPlain, PrimTextLine) EXCEPT !.xform = XFormMove],
     PathOf(VertTextPlain, <<>>),
     PathOf(VertTextPlain, LineClosed),
     PathOf(VertTextPlain, <<"L", "5", " ", "6">>),
     PathOf(VertTextPlain, <<"L", "1", " ", "6", "B", "0", " ", "7">>),
     PathOf(VertTextPlain, <<"B", "0", " ", "7">>),
     PathOf(<<>>, PrimTextLine),
     [PathOf(VertTextCurved, <<"B", "0", " ", "1">>) EXCEPT !.xform = XFormShear],
     [PathOf(VertTextCurved, <<"B", "1", " ", "0", "L", "0", " ", "2">>)
         EXCEPT !.xform = XFormTurn],
     PathOf(VertTextSwing, <<"B", "0", " ", "1", "B", "1", " ", "0">>)}

RECURSIVE BoundsTrees(_)
RECURSIVE BoundsForests(_)
\* the shapes of n nodes
BoundsTrees(n) ==
    IF n = 1 THEN BoundsLeaves \cup {GroupShape(0, XFormScale, <<>>)}
    ELSE {GroupShape(0, XFormScale, c) : c \in BoundsForests(n - 1)}

\* the lists of shapes of n nodes in all
BoundsForests(n) ==
    IF n = 0 THEN {<<>>}
    ELSE UNION {{<<t>> \o c : t \in BoundsTrees(k), c \in BoundsForests(n - k)} :
                  k \in 1..n}

BoundsInit ==
    /\ ParserInit
    /\ pth = PathIdle
    /\ svg \in {[at |-> "bounds", shape |-> q, out |-> None] :
                   q \in UNION {BoundsTrees(n) : n \in 1..MaxBoundsNodes}}

ShapeBounds ==
    /\ svg.at = "bounds"
    /\ svg.out = None
    /\ svg' = [svg EXCEPT !.out = Some(get_transformed_bounds(svg.shape))]
    /\ UNCHANGED <<parserVars, pth>>

BoundsNext == ShapeBounds

\* ---- the calls of parse_vert_list ----
\* V tokens of a VertList text
MaxVerts == 2

\* a numeral as written in a V token, with the float it denotes, if any
Numeral(text) == [text |-> text, value |-> ParseF64(text)]

\* no numeral, two floats, and two texts of numeral characters that are no
\* float
Numerals ==
    {Numeral(<<>>), Numeral(<<"4", "9">>), Numeral(<<"-", "2">>),
     Numeral(<<"1", "-", "2">>), Numeral(<<"+">>)}

\* the suffix of a V token, with the control fields its keys denote
Suffix(text, c0x, c0y, c1x, c1y) ==
    [text |-> text, cp |-> [c0x |-> c0x, c0y |-> c0y, c1x |-> c1x, c1y |-> c1y]]

Suffixes ==
    {Suffix(<<>>, None, None, None, None),
     Suffix(<<"c", "0", "x", "3">>, Some(3), None, None, None),
     Suffix(<<"c", "0", "x", "1", "c", "1", "x", "4", "9", "c", "1", "y", "4", "8">>,
            Some(1), None, Some(49), Some(48))}

VertItems == [x : Numerals, y : Numerals, suffix : Suffixes]

\* the V tokens of "V49 48V62 63"
VertItemsSimple ==
    <<[x |-> Numeral(<<"4", "9">>), y |-> Numeral(<<"4", "8">>),
       suffix |-> Suffix(<<>>, None, None, None, None)],
      [x |-> Numeral(<<"6", "2">>), y |-> Numeral(<<"6", "3">>),
       suffix |-> Suffix(<<>>, None, None, None, None)]>>

RECURSIVE VertItemsText(_)
\* the VertList text of a list of V tokens: V, x, a space, y, the suffix
VertItemsText(items) ==
    IF items = <<>> THEN <<>>
    ELSE <<"V">> \o Head(items).x.text \o <<" ">> \o Head(items).y.text
           \o Head(items).suffix.text \o VertItemsText(Tail(items))

VertsInit ==
    /\ ParserInit
    /\ pth = PathIdle
    /\ svg \in {[at |-> "verts", items |-> t, out |-> None] :
                   t \in {VertItemsSimple}
                           \cup UNION {[1..n -> VertItems] : n \in 0..MaxVerts}}

ParseVertList ==
    /\ svg.at = "verts"
    /\ svg.out = None
    /\ svg' = [svg EXCEPT !.out = Some(parse_vert_list(VertItemsText(svg.items)))]
    /\ UNCHANGED <<parserVars, pth>>

VertsNext == ParseVertList

\* ---- the calls of parse_prim_list ----
\* opcodes of a PrimList text
MaxOpcodes == 2

\* integers after one opcode
MaxArgs == 4

PrimArgValues == {0, 12}

\* an opcode as written: the whitespace before it, its letter, its integers
PrimItems ==
    [gap : {<<>>, <<" ">>}, op : {"L", "B", "X"},
     args : UNION {[1..n -> PrimArgValues] : n \in 0..MaxArgs}]

RECURSIVE PrimArgsText(_)
\* integers as written in a PrimList: each after a space
PrimArgsText(args) ==
    IF args = <<>> THEN <<>>
    ELSE <<" ">> \o NatDigits(Head(args)) \o PrimArgsText(Tail(args))

RECURSIVE PrimItemsText(_)
\* the PrimList text of a list of opcodes; the first integer follows the
\* letter directly, as in "B0 1 L1 2"
PrimItemsText(items) ==
    IF items = <<>> THEN <<>>
    ELSE Head(items).gap \o <<Head(items).op>>
           \o (IF Head(items).args = <<>> THEN <<>>
               ELSE Tail(PrimArgsText(Head(items).args)))
           \o PrimItemsText(Tail(items))

PrimsInit ==
    /\ ParserInit
    /\ pth = PathIdle
    /\ svg \in {[at |-> "prims", items |-> t, out |-> None] :
                   t \in UNION {[1..n -> PrimItems] : n \in 0..MaxOpcodes}}

ParsePrimList ==
    /\ svg.at = "prims"
    /\ svg.out = None
    /\ svg' = [svg EXCEPT !.out = Some(parse_prim_list(PrimItemsText(svg.items)))]
    /\ UNCHANGED <<parserVars, pth>>

PrimsNext == ParsePrimList

\* ---- main.rs: the lbrn2 command ----
\* warning lines one stage may print
MaxWarnings == 2

StagesOfRun == <<"read", "parse", "convert", "write">>

\* the world of one run: whether the input file can be read, whether its
\* content parses, the warnings parsing and conversion print, whether the
\* output file can be written
CliInit ==
    /\ ParserInit
    /\ pth = PathIdle
    /\ svg \in {[at |-> "cli", pc |-> "read", readable |-> r, parses |-> p,
                 parse_warnings |-> pw, convert_warnings |-> cw, writable |-> w,
                 stages |-> <<>>, stderr |-> <<>>, stdout |-> <<>>,
                 written |-> FALSE, exit |-> None] :
                   r \in BOOLEAN, p \in BOOLEAN, w \in BOOLEAN,
                   pw \in 0..MaxWarnings, cw \in 0..MaxWarnings}

\* n lines of text on stderr
Eprintln(stderr, line, n) == stderr \o [k \in 1..n |-> line]

\* process::exit(code) after an error line
ExitWith(run, line, code) ==
    [run EXCEPT !.stderr = Eprintln(@, line, 1), !.exit = Some(code),
                !.pc = "exited"]

\* a parse stage that goes on to the conversion after a parse error
CliParseGoesOn ==
    /\ svg.at = "cli"
    /\ svg.pc = "parse"
    /\ svg' = [svg EXCEPT !.stages = Append(@, "parse"),
                          !.stderr = Eprintln(@, "warning", svg.parse_warnings),
                          !.pc = "convert"]
    /\ UNCHANGED <<parserVars, pth>>

\* fs::read_to_string(input_path)
CliRead ==
    /\ svg.at = "cli"
    /\ svg.pc = "read"
    /\ LET run == [svg EXCEPT !.stages = Append(@, "read")] IN
       svg' = IF svg.readable THEN [run EXCEPT !.pc = "parse"]
              ELSE ExitWith(run, "Error reading input file", 2)
    /\ UNCHANGED <<parserVars, pth>>

\* parse_lbrn2(&lbrn2_content)
CliParse ==
    /\ svg.at = "cli"
    /\ svg.pc = "parse"
    /\ LET run == [svg EXCEPT !.stages = Append(@, "parse"),
                              !.stderr = Eprintln(@, "warning", svg.parse_warnings)]
       IN  svg' = IF svg.parses THEN [run EXCEPT !.pc = "convert"]
                  ELSE ExitWith(run, "Error parsing LBRN2 file", 3)
    /\ UNCHANGED <<parserVars, pth>>

\* lbrn2_to_svg(&project)
CliConvert ==
    /\ svg.at = "cli"
    /\ svg.pc = "convert"
    /\ svg' = [svg EXCEPT !.stages = Append(@, "convert"),
                          !.stderr = Eprintln(@, "warning", svg.convert_warnings),
                          !.pc = "write"]
    /\ UNCHANGED <<parserVars, pth>>

\* fs::write(output_path, &svg)
CliWrite ==
    /\ svg.at = "cli"
    /\ svg.pc = "write"
    /\ LET run == [svg EXCEPT !.stages = Append(@, "write")] IN
       svg' = IF svg.writable
              THEN [run EXCEPT !.written = TRUE,
                               !.stdout = Append(@, "Successfully converted"),
                               !.pc = "return"]
              ELSE ExitWith(run, "Error writing output file", 4)
    /\ UNCHANGED <<parserVars, pth>>

\* run_lbrn2_conversion and main return: the process exits with code 0
CliReturn ==
    /\ svg.at = "cli"
    /\ svg.pc = "return"
    /\ svg' = [svg EXCEPT !.exit = Some(0), !.pc = "exited"]
    /\ UNCHANGED <<parserVars, pth>>

CliNext == CliRead \/ CliParse \/ CliConvert \/ CliWrite \/ CliReturn

\* ---- editor/history.rs ----
MAX_HISTORY_SIZE == 100

\* History::new()
NewHistory == [undo_stack |-> <<>>, redo_stack |-> <<>>]

\* a save_state that keeps the redo stack
save_state_keeps_redo(self, document) ==
    LET pushed == Append(self.undo_stack, document) IN
    [undo_stack |-> IF Len(pushed) > MAX_HISTORY_SIZE THEN Tail(pushed) ELSE pushed,
     redo_stack |-> self.redo_stack]

\* a save_state that discards the newest state at the limit
save_state_drops_newest(self, document) ==
    LET pushed == Append(self.undo_stack, document) IN
    [undo_stack |-> IF Len(pushed) > MAX_HISTORY_SIZE THEN Front(pushed) ELSE pushed,
     redo_stack |-> <<>>]

\* an undo that returns the oldest saved state
undo_oldest(self, current) ==
    IF self.undo_stack # <<>>
    THEN [history |-> [undo_stack |-> Tail(self.undo_stack),
                       redo_stack |-> Append(self.redo_stack, current)],
          ret |-> Some(Head(self.undo_stack))]
    ELSE [history |-> self, ret |-> None]

\* History::save_state: the history after the call
save_state(self, document) ==
    LET pushed == Append(self.undo_stack, document) IN
    [undo_stack |-> IF Len(pushed) > MAX_HISTORY_SIZE THEN Tail(pushed) ELSE pushed,
     redo_stack |-> <<>>]

\* History::undo: the history after the call and the returned Option
undo(self, current) ==
    IF self.undo_stack # <<>>
    THEN [history |-> [undo_stack |-> Front(self.undo_stack),
                       redo_stack |-> Append(self.redo_stack, current)],
          ret |-> Some(Top(self.undo_stack))]
    ELSE [history |-> self, ret |-> None]

\* History::redo: the history after the call and the returned Option
redo(self, current) ==
    IF self.redo_stack # <<>>
    THEN [history |-> [undo_stack |-> Append(self.undo_stack, current),
                       redo_stack |-> Front(self.redo_stack)],
          ret |-> Some(Top(self.redo_stack))]
    ELSE [history |-> self, ret |-> None]

\* History::clear
clear(self) == [undo_stack |-> <<>>, redo_stack |-> <<>>]

can_undo(self) == self.undo_stack # <<>>

can_redo(self) == self.redo_stack # <<>>

undo_count(self) == Len(self.undo_stack)

redo_count(self) == Len(self.redo_stack)

\* ---- the calls the editor makes on its History ----
\* a short run: changes of the document, and undo, redo and clear calls
MaxEdits == 4

MaxOthers == 5

\* a long run, past MAX_HISTORY_SIZE saved states, with few other calls
LongEdits == 102

FewOthers == 2

\* calls remembered for the properties
MaxWindow == 4

HistoryInit ==
    /\ ParserInit
    /\ pth = PathIdle
    /\ svg \in {[at |-> "history", document |-> 0, history |-> NewHistory,
                 edits |-> 0, others |-> 0, budget |-> b, calls |-> <<>>,
                 saved |-> FALSE, dropped |-> {}] :
                   b \in {[edits |-> MaxEdits, others |-> MaxOthers],
                          [edits |-> LongEdits, others |-> FewOthers]}}

\* the last MaxWindow calls, the newest last
Remember(calls, op, cur, ret, before) ==
    LET all == Append(calls, [op |-> op, cur |-> cur, ret |-> ret, before |-> before])
    IN  IF Len(all) > MaxWindow THEN Tail(all) ELSE all

\* a change of the document: the state before it is saved, then the
\* document becomes a new one
HistSave ==
    /\ svg.at = "history"
    /\ svg.edits < svg.budget.edits
    /\ svg' = [svg EXCEPT
         !.history = save_state(svg.history, svg.document),
         !.document = svg.edits + 1,
         !.edits = @ + 1,
         !.calls = Remember(@, "save_state", svg.document, None, svg.history),
         !.saved = TRUE,
         !.dropped = @ \cup {svg.history.redo_stack[i] :
                                i \in 1..Len(svg.history.redo_stack)}]
    /\ UNCHANGED <<parserVars, pth>>

\* SvgEditorApp::undo
HistUndo ==
    /\ svg.at = "history"
    /\ svg.others < svg.budget.others
    /\ LET r == undo(svg.history, svg.document) IN
       svg' = [svg EXCEPT
         !.history = r.history,
         !.document = UnwrapOr(r.ret, svg.document),
         !.others = @ + 1,
         !.calls = Remember(@, "undo", svg.document, r.ret, svg.history),
         !.saved = @ /\ r.ret = None]
    /\ UNCHANGED <<parserVars, pth>>

\* SvgEditorApp::redo
HistRedo ==
    /\ svg.at = "history"
    /\ svg.others < svg.budget.others
    /\ LET r == redo(svg.history, svg.document) IN
       svg' = [svg EXCEPT
         !.history = r.history,
         !.document = UnwrapOr(r.ret, svg.document),
         !.others = @ + 1,
         !.calls = Remember(@, "redo", svg.document, r.ret, svg.history)]
    /\ UNCHANGED <<parserVars, pth>>

\* SvgEditorApp::open_file with a file that loads: a new document, and
\* history.clear()
HistClear ==
    /\ svg.at = "history"
    /\ svg.others < svg.budget.others
    /\ svg.edits < svg.budget.edits
    /\ svg' = [svg EXCEPT
         !.history = clear(svg.history),
         !.document = svg.edits + 1,
         !.edits = @ + 1,
         !.others = @ + 1,
         !.calls = Remember(@, "clear", svg.document, None, svg.history)]
    /\ UNCHANGED <<parserVars, pth>>

HistoryNext == HistSave \/ HistUndo \/ HistRedo \/ HistClear

\* ---- editor/app.rs and editor/canvas.rs: the frames of the editor ----
\* frames of one run
MaxFrames == 5

\* what egui reports to one frame: a drag of the primary button that starts
\* (the widget is dragged in that frame too), goes on or stops, with the
\* pointer's movement since the last frame, what lies under the pointer, and
\* the undo or redo shortcut
FrameInput(started, hit, dragged, delta, stopped, key) ==
    [started |-> started, hit |-> hit, dragged |-> dragged, delta |-> delta,
     stopped |-> stopped, key |-> key]

\* the inputs of a frame while the primary button is up (FALSE) or down in
\* a drag (TRUE)
FrameInputs(down) ==
    IF down
    THEN {FrameInput(FALSE, "none", TRUE, d, FALSE, "none") : d \in {0, 1}}
           \cup {FrameInput(FALSE, "none", FALSE, 0, TRUE, "none")}
    ELSE {FrameInput(TRUE, h, TRUE, d, FALSE, "none") :
             h \in {"point", "element", "none"}, d \in {0, 1}}
           \cup {FrameInput(FALSE, "none", FALSE, 0, FALSE, k) :
                    k \in {"none", "undo", "redo"}}

\* SvgEditorApp::default() with a document of one path: the offset of the
\* path and the offset of one of its points
EditorInit ==
    /\ ParserInit
    /\ pth = PathIdle
    /\ svg = [at |-> "editor",
              document |-> [elem |-> 0, point |-> 0],
              history |-> NewHistory,
              canvas_state |-> [dragging |-> FALSE, selected_element |-> FALSE,
                                selected_point |-> FALSE],
              drag_state_saved |-> FALSE,
              down |-> FALSE, frames |-> 0,
              gesture |-> [hit |-> "none", before |-> [elem |-> 0, point |-> 0],
                           saves |-> <<>>, stopped |-> FALSE],
              idle_saves |-> 0]

\* handle_tool_interaction for Tool::Select and Tool::Move: the document and
\* the canvas state after the call
handle_tool_interaction(doc, state, input) ==
    LET on_point == input.started /\ input.hit = "point" /\ state.selected_element
        clicked == input.hit \in {"point", "element"}
        begun == IF ~input.started THEN state
                 ELSE IF on_point
                 THEN [state EXCEPT !.selected_point = TRUE, !.dragging = TRUE]
                 ELSE [dragging |-> clicked, selected_element |-> clicked,
                       selected_point |-> FALSE]
        moved == IF input.dragged /\ begun.dragging
                 THEN IF begun.selected_point
                      THEN [doc EXCEPT !.point = @ + input.delta]
                      ELSE IF begun.selected_element
                      THEN [doc EXCEPT !.elem = @ + input.delta]
                      ELSE doc
                 ELSE doc
    IN  IF on_point THEN [doc |-> doc, state |-> begun]
        ELSE [doc |-> moved,
              state |-> IF input.stopped THEN [begun EXCEPT !.dragging = FALSE]
                        ELSE begun]

\* the document, history and selection after the shortcuts of a frame
AfterKeys(app, key) ==
    LET r == IF key = "undo" THEN undo(app.history, app.document)
             ELSE redo(app.history, app.document)
    IN  IF key = "none" \/ r.ret = None THEN app
        ELSE [app EXCEPT !.history = r.history, !.document = Unwrap(r.ret),
                         !.canvas_state.selected_element = FALSE,
                         !.canvas_state.selected_point = FALSE]

\* SvgEditorApp::update: one frame
Frame ==
    /\ svg.at = "editor"
    /\ svg.frames < MaxFrames
    /\ \E input \in FrameInputs(svg.down) :
         LET keyed == AfterKeys(svg, input.key)
             was_dragging == keyed.canvas_state.dragging
             saves == was_dragging /\ ~keyed.drag_state_saved
             saved == IF saves
                      THEN [keyed EXCEPT
                              !.history = save_state(keyed.history, keyed.document),
                              !.drag_state_saved = TRUE]
                      ELSE keyed
             r == handle_tool_interaction(saved.document, saved.canvas_state, input)
             gesture == IF input.started
                        THEN [hit |-> input.hit, before |-> svg.document,
                              saves |-> <<>>, stopped |-> FALSE]
                        ELSE [svg.gesture EXCEPT
                                !.saves = IF saves THEN Append(@, keyed.document) ELSE @,
                                !.stopped = input.stopped]
         IN  svg' = [saved EXCEPT
               !.document = r.doc,
               !.canvas_state = r.state,
               !.drag_state_saved = IF was_dragging /\ ~r.state.dragging
                                    THEN FALSE ELSE @,
               !.down = (svg.down \/ input.started) /\ ~input.stopped,
               !.frames = @ + 1,
               !.gesture = gesture,
               !.idle_saves = IF saves /\ ~svg.down THEN @ + 1 ELSE @]
    /\ UNCHANGED <<parserVars, pth>>

EditorNext == Frame

\* ---- parse_lbrn2_complete after a first shape that defines ID 0 ----
\* the locals of the activation that parsed the first shape of
\* <LightBurnProject><Shape .. VertID="0" ..><VertList>..</VertList>..</Shape>
\* when it left its loop: a Path that is kept, a Path whose text decodes
\* to no vertex, a shape without Type
CachePrefixes ==
    {[NewFrame("top", HeadPathIds) EXCEPT
         !.vert_list = VertTextA, !.prim_list = LineClosed, !.depth = 0],
     [NewFrame("top", HeadPathIds) EXCEPT !.vert_list = VertTextNoY, !.depth = 0],
     [NewFrame("top", HeadNoType) EXCEPT !.vert_list = VertTextB, !.depth = 0]}

\* the parser between the first shape and the rest of the document: the
\* caches, project and history are those the first shape left; the rest of
\* the document has shapes, lists and texts, no CutSetting and no XForm
CacheInit ==
    /\ rd = [open |-> <<Open("LightBurnProject", "")>>, text |-> FALSE,
             fuel |-> MaxEvents - 1, shapes |-> MaxShapes, cuts |-> 0, xforms |-> 0,
             verts |-> MaxVertLists, prims |-> MaxPrimLists, eof |-> FALSE,
             err |-> FALSE]
    /\ stack = <<>>
    /\ cut = None
    /\ result = None
    /\ last = NoLast
    /\ \E fr \in CachePrefixes :
         LET fin == FinishShape(fr, EmptyCache, EmptyCache) IN
         /\ vertex_cache = fin.vertex_cache
         /\ primitive_cache = fin.primitive_cache
         /\ project = [EmptyProject EXCEPT
                         !.shapes = IF fin.result = None THEN <<>>
                                    ELSE <<Unwrap(fin.result)>>]
         /\ hist = HistAfterClose(
                     [NoHist EXCEPT
                        !.seenV = {Unwrap(fr.vert_id)},
                        !.seenP = IF fr.prim_list = <<>> THEN {}
                                  ELSE {Unwrap(fr.prim_id)}],
                     fr, fin)
    /\ pth = PathIdle
    /\ svg = SvgIdle

\* the steps of the parser on a document without CutSetting
CacheNext ==
    \/ TopShape \/ TopEmptyShape \/ TopEnd \/ TopEof \/ TopErr
    \/ ShChildren \/ ShBackupPath \/ ShShape \/ ShOtherStart \/ ShEmptyShape
    \/ ShText \/ ShEnd \/ ShEof \/ ShErr

vars == <<parserVars, converterVars>>

Init == ParserInit /\ pth = PathIdle /\ svg = SvgIdle

Next == ParserNext

Spec == Init /\ [][Next]_vars

SpecPath == PathInit /\ [][PathNext]_vars

SpecSvg == SvgInit /\ [][SvgNext]_vars

SpecStyle == StyleInit /\ [][StyleNext]_vars

SpecCompose == ComposeInit /\ [][ComposeNext]_vars

SpecXForm == XFormInit /\ [][XFormNext]_vars

SpecBounds == BoundsInit /\ [][BoundsNext]_vars

SpecVerts == VertsInit /\ [][VertsNext]_vars

SpecPrims == PrimsInit /\ [][PrimsNext]_vars

SpecCli == CliInit /\ [][CliNext]_vars

SpecHistory == HistoryInit /\ [][HistoryNext]_vars

SpecEditor == EditorInit /\ [][EditorNext]_vars

SpecCache == CacheInit /\ [][CacheNext]_vars


(***************************************************************************)
(* Properties of the parser.                                               *)
(***************************************************************************)
\* the activation that returned in the last step
Closed == Unwrap(last.closed)

\* a shape and every shape below it
RECURSIVE Descendants(_)
Descendants(s) ==
    {s} \cup (IF s.kind = "Group"
              THEN UNION {Descendants(s.children[i]) : i \in 1..Len(s.children)}
              ELSE {})

ShapesOf(seq) == UNION {Descendants(seq[i]) : i \in 1..Len(seq)}

\* every shape built so far: in the project, in the lists of the running
\* activations and in the returned project
BuiltShapes ==
    ShapesOf(project.shapes)
      \cup UNION {ShapesOf(stack[i].children) \cup ShapesOf(stack[i].backup_path_shape)
                     \cup ShapesOf(stack[i].held) : i \in 1..Len(stack)}
      \cup (IF result # None /\ Unwrap(result).ok
            THEN ShapesOf(Unwrap(result).project.shapes) ELSE {})

\* the shape that returned in the last step sits last in the list it went to
DeliveredLast ==
    LET c == Closed IN
    /\ c.to = "shapes" => Top(project.shapes) = Unwrap(c.fin.result)
    /\ c.to = "children" => Top(Cur.children) = Unwrap(c.fin.result)
    /\ c.to = "backup" => Cur.backup_path_shape = c.fin.result

\* a step leaves alone what was stored before it
StoredStay ==
    Parsing' =>
      /\ Len(project'.shapes) >= Len(project.shapes)
      /\ SubSeq(project'.shapes, 1, Len(project.shapes)) = project.shapes
      /\ \A i \in 1..Len(stack) :
           i <= Len(stack') /\ stack'[i].site = stack[i].site
                            /\ stack'[i].depth >= 1 /\ i < Len(stack) =>
             /\ Len(stack'[i].children) >= Len(stack[i].children)
             /\ SubSeq(stack'[i].children, 1, Len(stack[i].children)) = stack[i].children

\* C1 as stated: a shape with a body that declares VertID=k (PrimID=k) and
\* has no inline VertList (PrimList), starting after a shape with an inline
\* definition of ID k closed, resolves to a copy of such a definition: the
\* same raw text and the same decoded list.
C1_AnyEarlierDefinition ==
    last.closed # None /\ ~Closed.fin.replaced =>
      LET fr == Closed.frame
          fin == Closed.fin
      IN  /\ fr.vert_list = <<>> /\ IsSome(fr.vert_id)
               /\ Unwrap(fr.vert_id) \in fr.known.V =>
                 /\ fin.rv.raw \in hist.defsV[Unwrap(fr.vert_id)]
                 /\ fin.rv.items = parse_vert_list(fin.rv.raw)
          /\ fr.prim_list = <<>> /\ IsSome(fr.prim_id)
               /\ Unwrap(fr.prim_id) \in fr.known.P =>
                 /\ fin.rp.raw \in hist.defsP[Unwrap(fr.prim_id)]

\* C1, amended: the copy is of the most recent inline definition of ID k
\* among the shapes that closed before and were not a Text replaced by its
\* backup path: same raw text, same decoded vertices or primitives, and a
\* LineClosed text comes back as LineClosed with no primitives; a Path
\* built from it carries exactly these lists.
C1_LatestRegisteredDefinition ==
    last.closed # None /\ ~Closed.fin.replaced =>
      LET fr == Closed.frame
          fin == Closed.fin
      IN  /\ fr.vert_list = <<>> /\ IsSome(fr.vert_id)
               /\ IsSome(hist.regV[Unwrap(fr.vert_id)]) =>
                 LET t == Unwrap(hist.regV[Unwrap(fr.vert_id)]) IN
                 /\ fin.rv.raw = t /\ fin.rv.items = parse_vert_list(t)
                 /\ ~fin.rv.warn
                 /\ fr.shape_type = "Path" /\ fin.result # None =>
                      /\ Unwrap(fin.result).vert_list = t
                      /\ Unwrap(fin.result).parsed_verts = parse_vert_list(t)
          /\ fr.prim_list = <<>> /\ IsSome(fr.prim_id)
               /\ IsSome(hist.regP[Unwrap(fr.prim_id)]) =>
                 LET t == Unwrap(hist.regP[Unwrap(fr.prim_id)]) IN
                 /\ fin.rp.raw = t
                 /\ fin.rp.items = IF t = LineClosed THEN <<>> ELSE parse_prim_list(t)
                 /\ ~fin.rp.warn
                 /\ fr.shape_type = "Path" /\ fin.result # None =>
                      /\ Unwrap(fin.result).prim_list = t
                      /\ Unwrap(fin.result).parsed_primitives = fin.rp.items

\* a Path took both its vertices and its LineClosed primitive list from
\* the caches and was stored
C1_Witness ==
    /\ last.closed # None
    /\ Closed.frame.shape_type = "Path"
    /\ Closed.frame.vert_list = <<>> /\ IsSome(Closed.frame.vert_id)
    /\ Closed.frame.prim_list = <<>> /\ IsSome(Closed.frame.prim_id)
    /\ Closed.to = "shapes"
    /\ Unwrap(Closed.fin.result).prim_list = LineClosed
    /\ Unwrap(Closed.fin.result).parsed_verts # <<>>


\* C2: a shape with a body that declares VertID=k (PrimID=k), has no inline
\* list and closes before any inline definition of ID k has been read
\* resolves to the empty list with a warning; the parse goes on; and no
\* step changes a shape stored before it, so that a later definition of
\* ID k fills nothing in.
C2_UnresolvedIdIsEmpty ==
    /\ [](last.closed # None /\ ~Closed.fin.replaced =>
            LET fr == Closed.frame
                fin == Closed.fin
            IN  /\ fr.vert_list = <<>> /\ IsSome(fr.vert_id)
                     /\ Unwrap(fr.vert_id) \notin hist.seenV =>
                       /\ fin.rv.items = <<>> /\ fin.rv.raw = <<>> /\ fin.rv.warn
                       /\ Parsing
                       /\ fin.vertex_cache = vertex_cache
                       /\ fr.shape_type = "Path" => fin.result = None
                /\ fr.prim_list = <<>> /\ IsSome(fr.prim_id)
                     /\ Unwrap(fr.prim_id) \notin hist.seenP =>
                       /\ fin.rp.items = <<>> /\ fin.rp.raw = <<>> /\ fin.rp.warn
                       /\ Parsing
                       /\ fr.shape_type = "Path" /\ fin.result # None =>
                            /\ Unwrap(fin.result).prim_list = <<>>
                            /\ Unwrap(fin.result).parsed_primitives = <<>>)
    /\ [][StoredStay]_vars

\* a Path stored with an unresolved PrimID still has no primitives after
\* a later shape registered a definition of that ID, and the parse
\* returned Ok
C2_Witness ==
    /\ result # None /\ Unwrap(result).ok
    /\ Len(Unwrap(result).project.shapes) = 2
    /\ Unwrap(result).project.shapes[1].kind = "Path"
    /\ Unwrap(result).project.shapes[1].prim_list = <<>>
    /\ Unwrap(result).project.shapes[2].kind = "Path"
    /\ Unwrap(result).project.shapes[2].prim_list # <<>>
    /\ "cache" \in hist.bad
    /\ hist.regP[0] # None

C4_NoEmptyGroup ==
    /\ \A sh \in BuiltShapes : sh.kind = "Group" => sh.children # <<>>
    /\ last.closed # None /\ Closed.frame.shape_type = "Group" =>
         /\ Closed.fin.result = None <=> Closed.frame.children = <<>>
         /\ Closed.fin.result # None =>
              Unwrap(Closed.fin.result).children = Closed.frame.children

\* a Group nested in the Children of a Group closed without children
C4_Witness ==
    /\ last.closed # None
    /\ Closed.frame.shape_type = "Group"
    /\ Closed.frame.children = <<>>
    /\ Closed.level = 2
    /\ Cur.shape_type = "Group" /\ Cur.in_children
    /\ Cur.children = <<>>

\* C5: a Path activation returns no shape exactly when its resolved
\* vertex list is empty, whatever its primitive list resolves to; a Path
\* that is built is stored last in the list it goes to; every Path built
\* has a vertex.
C5_PathDroppedIffNoVertices ==
    /\ \A sh \in BuiltShapes : sh.kind = "Path" => sh.parsed_verts # <<>>
    /\ last.closed # None /\ Closed.frame.shape_type = "Path" =>
         /\ Closed.fin.result = None <=> Closed.fin.rv.items = <<>>
         /\ Closed.fin.result # None =>
              /\ Unwrap(Closed.fin.result).kind = "Path"
              /\ Unwrap(Closed.fin.result).parsed_verts = Closed.fin.rv.items
              /\ Unwrap(Closed.fin.result).parsed_primitives = Closed.fin.rp.items
              /\ DeliveredLast
              /\ Closed.frame.site = "top" => Closed.to = "shapes"

\* a Path with vertices and no primitives at all was stored in the project
C5_Witness ==
    /\ last.closed # None
    /\ Closed.frame.shape_type = "Path"
    /\ Closed.fin.rv.items # <<>>
    /\ Closed.fin.rp.items = <<>> /\ Closed.fin.rp.raw = <<>>
    /\ Closed.to = "shapes"
    /\ Top(project.shapes).parsed_primitives = <<>>

\* C6: the parse has returned an error exactly when the reader has
\* reported one, wherever it did; the error carries no project; when the
\* reader reported none the parse can only return Ok, with the project
\* built, whatever malformed data it met.
C6_ErrorIffReaderError ==
    /\ (result # None /\ ~Unwrap(result).ok) <=> rd.err
    /\ rd.err => DOMAIN Unwrap(result) = {"ok", "error"}
    /\ result # None /\ Unwrap(result).ok =>
         rd.eof /\ ~rd.err /\ Unwrap(result).project = project
    /\ result # None /\ ~rd.err => Unwrap(result).ok

\* the parse returned Ok, with a shape, after a bad XForm text, a
\* non-numeric attribute, an unresolved ID and a dropped shape
C6_Witness ==
    /\ result # None /\ Unwrap(result).ok
    /\ Unwrap(result).project.shapes # <<>>
    /\ {"xform", "attribute", "cache", "empty"} \subseteq hist.bad

\* C7: a self-closing Shape gives what a Shape start element with the
\* same attributes and an empty body gives.
C7_EmptyElementLikeStart ==
    last.empty # None =>
      Unwrap(last.empty).result =
        FinishShape(NewFrame("child", Unwrap(last.empty).attrs),
                    vertex_cache, primitive_cache).result


(***************************************************************************)
(* Properties of generate_path_data.                                       *)
(***************************************************************************)
\* every index of every primitive is the index of a vertex
AllIndicesValid(path) ==
    \A j \in 1..Len(path.parsed_primitives) :
        /\ path.parsed_primitives[j].start_idx < Len(path.parsed_verts)
        /\ path.parsed_primitives[j].end_idx < Len(path.parsed_verts)

\* the letters of a sequence of commands
Ops(cmds) == [k \in 1..Len(cmds) |-> cmds[k].op]

\* the primitive of turn j starts where the primitive of turn j - 1 ended
Chained(prims, j) == j > 1 /\ prims[j].start_idx = prims[j - 1].end_idx

\* C10: with all indices valid, the turn of a primitive pushes an M, to the
\* primitive's start vertex, exactly when the primitive is the first or
\* does not start at the index where the previous one ended, and then one
\* L or C to its end vertex; a chain of primitives gives one M and one L
\* or C each.
C10_MoveIffFirstOrBreak ==
    pth.at \in {"loop", "done"} /\ pth.path.prim_list # LineClosed
        /\ AllIndicesValid(pth.path) =>
      LET prims == pth.path.parsed_primitives
          verts == pth.path.parsed_verts
      IN  /\ \A j \in 1..Len(pth.steps) :
                LET added == pth.steps[j].added
                    p0 == verts[prims[j].start_idx + 1]
                    p1 == verts[prims[j].end_idx + 1]
                IN  /\ pth.steps[j].prim = prims[j]
                    /\ Ops(added) \in {<<"M", "L">>, <<"M", "C">>, <<"L">>, <<"C">>}
                    /\ Head(added).op = "M" <=> ~Chained(prims, j)
                    /\ Head(added).op = "M" =>
                         Head(added).args = <<path_f(p0.x), path_f(p0.y)>>
                    /\ SubSeq(added[Len(added)].args, Len(added[Len(added)].args) - 1,
                              Len(added[Len(added)].args)) = <<path_f(p1.x), path_f(p1.y)>>
          /\ pth.at = "done" /\ prims # <<>> /\ verts # <<>>
               /\ (\A j \in 2..Len(prims) : Chained(prims, j)) =>
                LET d == Unwrap(pth.out).d
                    body == SelectSeq(d, LAMBDA c : c.op # "Z")
                IN  /\ Len(body) = Len(prims) + 1
                    /\ Head(body).op = "M"
                    /\ \A k \in 2..Len(body) : body[k].op \in {"L", "C"}

\* a path of three valid primitives, the second chained to the first and
\* the third not, one of them a curve, has been generated
C10_Witness ==
    /\ pth.at = "done"
    /\ AllIndicesValid(pth.path)
    /\ Len(pth.steps) = 3
    /\ Chained(pth.path.parsed_primitives, 2)
    /\ ~Chained(pth.path.parsed_primitives, 3)
    /\ Ops(Unwrap(pth.out).d) \in {<<"M", "L", "C", "M", "L">>, <<"M", "C", "L", "M", "L">>}

\* the turns of the loop that pushed a command
EmittedTurns == {j \in 1..Len(pth.steps) : pth.steps[j].added # <<>>}

\* the least and the greatest of a non-empty set of turns
FirstOf(turns) == CHOOSE j \in turns : \A k \in turns : j <= k

LastOf(turns) == CHOOSE j \in turns : \A k \in turns : k <= j

\* C11: when generate_path_data returns from its primitive loop or from its
\* early return, d holds a Z exactly when some primitive was emitted and the
\* start index of the first emitted primitive (the first move-to) equals the
\* end index of the last emitted one; the Z is single, has no blank before
\* it and is the last command, so no earlier sub-path is closed and equal
\* coordinates at distinct indices close nothing.
C11_ZIffFirstIndexIsLast ==
    pth.at = "done" /\ pth.path.prim_list # LineClosed =>
      LET d == Unwrap(pth.out).d
          prims == pth.path.parsed_primitives
          closes == /\ EmittedTurns # {}
                    /\ prims[FirstOf(EmittedTurns)].start_idx
                         = prims[LastOf(EmittedTurns)].end_idx
      IN  /\ (\E k \in 1..Len(d) : d[k].op = "Z") <=> closes
          /\ \A k \in 1..Len(d) :
                d[k].op = "Z" => k = Len(d) /\ d[k].lead = "" /\ d[k].args = <<>>

\* a path of two sub-paths, the second ending at the index where the first
\* started, has been generated: one Z, after the second
C11_Witness ==
    /\ pth.at = "done"
    /\ pth.path.prim_list # LineClosed
    /\ Len(pth.steps) = 2
    /\ pth.path.parsed_primitives[1].start_idx = pth.path.parsed_primitives[2].end_idx
    /\ Ops(Unwrap(pth.out).d) = <<"M", "L", "M", "L", "Z">>

\* `idx0 >= path.parsed_verts.len() || idx1 >= path.parsed_verts.len()`
OutOfRange(path, prim) ==
    prim.start_idx >= Len(path.parsed_verts) \/ prim.end_idx >= Len(path.parsed_verts)

\* the log entries of the skipped primitives
SkipEntries(log) ==
    SelectSeq(log, LAMBDA m : m \in {"Invalid indices for Line", "Invalid indices for Bezier"})

\* the loop is at a primitive, or has just handled one
AtPrimitive ==
    /\ pth.at = "loop"
    /\ pth.i <= Len(pth.path.parsed_primitives)

\* a turn on a primitive with an index out of range: one more log entry,
\* and d, first_move_to_idx and current_last_idx as they were
SkipTurn ==
    AtPrimitive /\ OutOfRange(pth.path, pth.path.parsed_primitives[pth.i])
        /\ pth' # pth =>
      /\ pth'.lp.d = pth.lp.d
      /\ pth'.lp.first_move_to_idx = pth.lp.first_move_to_idx
      /\ pth'.lp.current_last_idx = pth.lp.current_last_idx
      /\ Len(pth'.lp.log) = Len(pth.lp.log) + 1
      /\ SkipEntries(pth'.lp.log) = Append(SkipEntries(pth.lp.log),
                                           pth'.lp.log[Len(pth'.lp.log)])
      /\ pth'.i = pth.i + 1

\* the turns so far: a primitive pushed nothing exactly when one of its
\* indices is out of range, every emitted primitive read vertices inside
\* the list, and the log has one skip entry per skipped primitive
SkippedOnly ==
    pth.at \in {"loop", "done"} /\ pth.path.prim_list # LineClosed =>
      LET prims == pth.path.parsed_primitives
          verts == pth.path.parsed_verts
      IN  /\ \A j \in 1..Len(pth.steps) :
                /\ pth.steps[j].added = <<>> <=> OutOfRange(pth.path, prims[j])
                /\ pth.steps[j].added # <<>> =>
                     /\ prims[j].start_idx + 1 \in DOMAIN verts
                     /\ prims[j].end_idx + 1 \in DOMAIN verts
                     /\ pth.steps[j].added[Len(pth.steps[j].added)].op \in {"L", "C"}
          /\ Len(SkipEntries(pth.lp.log))
               = Cardinality({j \in 1..Len(pth.steps) : OutOfRange(pth.path, prims[j])})
          /\ pth.at = "done" /\ prims # <<>> /\ verts # <<>> => Len(pth.steps) = Len(prims)

\* C12: a Line or Bezier primitive with a start or end index not below the
\* number of vertices is skipped: its turn adds one log entry and leaves d,
\* the first move-to index and the last index unchanged; every other
\* primitive of the path is emitted, from vertices inside the list.
C12_OutOfRangeSkipped == []SkippedOnly /\ [][SkipTurn]_vars

\* a path of three primitives has been generated, the second skipped for
\* its index and the third chaining to the first as if nothing lay between
C12_Witness ==
    /\ pth.at = "done"
    /\ Len(pth.steps) = 3
    /\ OutOfRange(pth.path, pth.path.parsed_primitives[2])
    /\ pth.steps[2].added = <<>>
    /\ Len(Unwrap(pth.out).log) = 1
    /\ Ops(Unwrap(pth.out).d) = <<"M", "L", "L", "Z">>

\* c0 of the start vertex and c1 of the end vertex are all there
HasControls(p0, p1) == p0.c0x # None /\ p0.c0y # None /\ p1.c1x # None /\ p1.c1y # None

\* a turn on a Bezier primitive with indices in range
BezierTurn ==
    AtPrimitive /\ pth.path.parsed_primitives[pth.i].kind = "Bezier"
        /\ ~OutOfRange(pth.path, pth.path.parsed_primitives[pth.i])
        /\ pth' # pth =>
      LET prim == pth.path.parsed_primitives[pth.i]
          verts == pth.path.parsed_verts
          p0 == verts[prim.start_idx + 1]
          p1 == verts[prim.end_idx + 1]
          asLine == LinePrimitive(pth.lp, verts, Line(prim.start_idx, prim.end_idx))
          after == pth'.lp
      IN  /\ after.first_move_to_idx = asLine.first_move_to_idx
          /\ after.current_last_idx = asLine.current_last_idx
          /\ after.current_last_idx = Some(prim.end_idx)
          /\ Len(after.d) = Len(asLine.d)
          /\ SubSeq(after.d, 1, Len(after.d) - 1) = SubSeq(asLine.d, 1, Len(asLine.d) - 1)
          /\ IF HasControls(p0, p1)
             THEN /\ after.d[Len(after.d)]
                       = Cmd("C", " ", <<path_f(Unwrap(p0.c0x)), path_f(Unwrap(p0.c0y)),
                                         path_f(Unwrap(p1.c1x)), path_f(Unwrap(p1.c1y)),
                                         path_f(p1.x), path_f(p1.y)>>)
                  /\ after.log = pth.lp.log
             ELSE /\ after.d[Len(after.d)]
                       = Cmd("L", " ", <<path_f(p1.x), path_f(p1.y)>>)
                  /\ after.d = asLine.d
                  /\ after.log = Append(pth.lp.log, "Falling back to Line")

\* C13: a Bezier primitive with indices in range pushes a C whose control
\* points are c0 of the start vertex and c1 of the end vertex and whose end
\* is the end vertex; if one of c0x, c0y of the start vertex or c1x, c1y of
\* the end vertex is missing it pushes what a Line primitive of the same
\* indices pushes and logs one warning; either way the move before it, the
\* first move-to index and the last index are those a Line would give.
C13_BezierOrLineFallback == [][BezierTurn]_vars

\* a path with two Bezier primitives has been generated: one curve, and
\* one line for an end vertex that has c1x but no c1y
C13_Witness ==
    /\ pth.at = "done"
    /\ Len(Unwrap(pth.out).log) = 1
    /\ \E j, k \in 1..Len(pth.steps) :
          LET verts == pth.path.parsed_verts
              pj == pth.steps[j].prim
              pk == pth.steps[k].prim
          IN  /\ pj.kind = "Bezier" /\ pk.kind = "Bezier"
              /\ ~OutOfRange(pth.path, pj) /\ ~OutOfRange(pth.path, pk)
              /\ pth.steps[j].added[Len(pth.steps[j].added)].op = "C"
              /\ pth.steps[k].added[Len(pth.steps[k].added)].op = "L"
              /\ verts[pk.end_idx + 1].c1x # None
              /\ verts[pk.end_idx + 1].c1y = None
              /\ verts[pk.start_idx + 1].c0x # None
              /\ verts[pk.start_idx + 1].c0y # None

RECURSIVE RenderArgs(_, _)
\* the numbers of a command as written: "x,y" pairs with a blank between
RenderArgs(args, i) ==
    IF i > Len(args) THEN <<>>
    ELSE (IF i = 1 THEN <<>> ELSE IF i % 2 = 0 THEN <<",">> ELSE <<" ">>)
           \o args[i] \o RenderArgs(args, i + 1)

RECURSIVE Render(_)
\* the characters of d
Render(d) ==
    IF d = <<>> THEN <<>>
    ELSE (IF Head(d).lead = "" THEN <<>> ELSE <<Head(d).lead>>) \o <<Head(d).op>>
           \o RenderArgs(Head(d).args, 1) \o Render(Tail(d))

\* C14: for a path whose prim_list is "LineClosed", whatever its primitive
\* list holds, d is M to the first vertex, one L to each later vertex in
\* order, then Z, and nothing is logged; one vertex (1,2) gives exactly
\* M1.000000,2.000000Z; no vertex gives the empty string and one log entry.
C14_LineClosedIsPolygon ==
    pth.at = "done" /\ pth.path.prim_list = LineClosed =>
      LET verts == pth.path.parsed_verts
          d == Unwrap(pth.out).d
          n == Len(verts)
      IN  IF verts = <<>>
          THEN d = <<>> /\ Render(d) = <<>> /\ Len(Unwrap(pth.out).log) = 1
          ELSE /\ Unwrap(pth.out).log = <<>>
               /\ Len(d) = n + 1
               /\ d[1] = Cmd("M", "", <<path_f(verts[1].x), path_f(verts[1].y)>>)
               /\ \A k \in 2..n :
                     d[k] = Cmd("L", " ", <<path_f(verts[k].x), path_f(verts[k].y)>>)
               /\ d[n + 1] = Cmd("Z", "", <<>>)
               /\ pth.path.vert_list = VertTextA =>
                     Render(d) = <<"M", "1", ".", "0", "0", "0", "0", "0", "0", ",",
                                   "2", ".", "0", "0", "0", "0", "0", "0", "Z">>

\* a LineClosed path of two vertices that also carries a primitive has
\* been generated: the polygon of its vertices
C14_Witness ==
    /\ pth.at = "done"
    /\ pth.path.prim_list = LineClosed
    /\ pth.path.parsed_primitives # <<>>
    /\ Ops(Unwrap(pth.out).d) = <<"M", "L", "Z">>


(***************************************************************************)
(* Properties of the style of a cut index.                                 *)
(***************************************************************************)
\* the positions of the entries of the table with the asked index
Matches ==
    IF svg.cut_settings = None THEN {}
    ELSE {k \in 1..Len(Unwrap(svg.cut_settings)) :
             Unwrap(svg.cut_settings)[k].index = svg.cut_index}

\* C15: the style of cut index i is stroke, stroke-width and fill:none;
\* without a table, with an empty one, or with no entry of index i, the
\* stroke is #000000 and the width 0.050000mm; otherwise the first entry of
\* index i decides: its colour if it has one, else the palette at
\* index mod 8 for an index >= 0 and #000000 for a negative one, and its
\* stroke width if it has one, else 0.050000mm.
C15_StyleOfCutIndex ==
    svg.at = "style" /\ svg.out # None =>
      LET out == Unwrap(svg.out) IN
      /\ out.fill = "none"
      /\ IF Matches = {}
         THEN out.stroke = "#000000" /\ out.stroke_width = "0.050000mm"
         ELSE LET e == Unwrap(svg.cut_settings)[FirstOf(Matches)] IN
              /\ out.stroke =
                   (IF e.color # None THEN Unwrap(e.color)
                    ELSE IF svg.cut_index >= 0
                    THEN DEFAULT_COLORS[(svg.cut_index % 8) + 1]
                    ELSE "#000000")
              /\ out.stroke_width =
                   (IF e.stroke_width # None THEN Unwrap(e.stroke_width)
                    ELSE "0.050000mm")

\* the style of index 9 has been asked of a table with two entries of
\* index 9, the first without a colour and the second with one: the
\* palette colour of 9 mod 8
C15_Witness ==
    /\ svg.at = "style"
    /\ svg.out # None
    /\ svg.cut_index = 9
    /\ Matches = {1, 2}
    /\ Unwrap(svg.cut_settings)[1].color = None
    /\ Unwrap(svg.cut_settings)[2].color # None
    /\ Unwrap(svg.out).stroke = "#FF0000"

(***************************************************************************)
(* Properties of the transforms.                                           *)
(***************************************************************************)
\* (a*x + c*y + e, b*x + d*y + f)
Affine(m, x, y) == <<m.a * x + m.c * y + m.e, m.b * x + m.d * y + m.f>>

\* C16: A.compose(B).transform_point(x, y) is A.transform_point of
\* B.transform_point(x, y), other first and then self, where transform_point
\* of (x, y) is (a*x + c*y + e, b*x + d*y + f), without a flip of y.
C16_ComposeAppliesOtherFirst ==
    svg.at = "compose" =>
      LET q == Affine(svg.other, svg.x, svg.y) IN
      /\ svg.nested # None => Unwrap(svg.nested) = Affine(svg.self, q[1], q[2])
      /\ svg.composed # None => Unwrap(svg.composed) = Affine(svg.self, q[1], q[2])
      /\ svg.composed # None /\ svg.nested # None => svg.composed = svg.nested

\* both points have been computed for a quarter turn composed with a
\* shear, two transforms that do not commute on the point
C16_Witness ==
    /\ svg.at = "compose"
    /\ svg.composed # None /\ svg.nested # None
    /\ svg.self = XFormTurn /\ svg.other = XFormShear
    /\ svg.x = 3 /\ svg.y = -1
    /\ Unwrap(svg.composed) # TransformPoint(Compose(svg.other, svg.self), svg.x, svg.y)

\* C17: parse_xform returns the six coefficients, without a warning, only
\* for a text of exactly six tokens that are all floats; for every other
\* text (fewer or more tokens, or a token that is not a float) it returns
\* the identity and prints a warning.
C17_IdentityUnlessSixFloats ==
    svg.at = "xform" /\ svg.out # None =>
      LET t == svg.tokens
          out == Unwrap(svg.out)
      IN  IF Len(t) = 6 /\ \A k \in 1..6 : t[k].ok
          THEN /\ out.xform = [a |-> t[1].v, b |-> t[2].v, c |-> t[3].v,
                                d |-> t[4].v, e |-> t[5].v, f |-> t[6].v]
               /\ ~out.warned
          ELSE out.xform = Identity /\ out.warned

(***************************************************************************)
(* Properties of the bounds of one shape.                                  *)
(***************************************************************************)
\* a primitive that pushes no point: a Line with both indices out of
\* range, a Bezier with one of them out of range
Pointless(verts, prim) ==
    IF prim.kind = "Line"
    THEN prim.start_idx >= Len(verts) /\ prim.end_idx >= Len(verts)
    ELSE prim.start_idx >= Len(verts) \/ prim.end_idx >= Len(verts)

RECURSIVE NothingToBound(_)
\* a shape with no point to bound: a Path without vertices, a Path whose
\* primitive list (not LineClosed, not empty) has only primitives that push
\* no point, a Group whose children (if any) all have nothing to bound
NothingToBound(shape) ==
    CASE shape.kind = "Group" ->
           \A i \in 1..Len(shape.children) : NothingToBound(shape.children[i])
      [] shape.kind = "Path" ->
           \/ shape.parsed_verts = <<>>
           \/ /\ shape.prim_list # LineClosed
              /\ shape.parsed_primitives # <<>>
              /\ \A j \in 1..Len(shape.parsed_primitives) :
                    Pointless(shape.parsed_verts, shape.parsed_primitives[j])
      [] OTHER -> FALSE

\* C18, as claimed: get_transformed_bounds returns None only for a Group
\* without children and for a Path without vertices; every other shape
\* yields a box.
C18_NoneOnlyIfEmpty ==
    svg.at = "bounds" /\ svg.out # None =>
      (Unwrap(svg.out) = None <=>
         \/ svg.shape.kind = "Group" /\ svg.shape.children = <<>>
         \/ svg.shape.kind = "Path" /\ svg.shape.parsed_verts = <<>>)

\* C18, amended: get_transformed_bounds returns None exactly for a shape
\* with no point to bound; these are the Path without vertices, the Path
\* with vertices whose primitives all have indices out of range, and the
\* Group that has no child or whose children all return None. Every Rect,
\* Ellipse and Bitmap, and every other Path and Group, yields a box.
C18_NoneIffNothingToBound ==
    svg.at = "bounds" /\ svg.out # None =>
      /\ Unwrap(svg.out) = None <=> NothingToBound(svg.shape)
      /\ Unwrap(svg.out) # None =>
           /\ Unwrap(Unwrap(svg.out)).min_x <= Unwrap(Unwrap(svg.out)).max_x
           /\ Unwrap(Unwrap(svg.out)).min_y <= Unwrap(Unwrap(svg.out)).max_y

\* the bounds of a Group have been asked whose two children are Paths
\* with vertices and with primitives out of range only: None
C18_Witness ==
    /\ svg.at = "bounds"
    /\ svg.out = Some(None)
    /\ svg.shape.kind = "Group"
    /\ Len(svg.shape.children) = 2
    /\ \A i \in 1..2 : /\ svg.shape.children[i].kind = "Path"
                         /\ svg.shape.children[i].parsed_verts # <<>>

(***************************************************************************)
(* Properties of the SVG document.                                         *)
(***************************************************************************)
\* the number a viewer reads in a text written with six decimals
ReadNumber(text) == Unwrap(ParseF64(SubSeq(text, 1, Len(text) - 7)))

\* the matrix(a b c d e f) a viewer reads in a transform
ReadMatrix(transform) == [k \in 1..6 |-> ReadNumber(transform[k])]

\* SVG: the point matrix(a b c d e f) maps a point to
SvgApply(m, pt) == <<m[1] * pt[1] + m[3] * pt[2] + m[5], m[2] * pt[1] + m[4] * pt[2] + m[6]>>

\* SVG: the matrix of an element with matrix n inside a <g> with matrix m
SvgProduct(m, n) ==
    <<m[1] * n[1] + m[3] * n[2], m[2] * n[1] + m[4] * n[2],
      m[1] * n[3] + m[3] * n[4], m[2] * n[3] + m[4] * n[4],
      m[1] * n[5] + m[3] * n[6] + m[5], m[2] * n[5] + m[4] * n[6] + m[6]>>

RECURSIVE Flat(_)
Flat(seqs) == IF seqs = <<>> THEN <<>> ELSE Head(seqs) \o Flat(Tail(seqs))

RECURSIVE PlacedLeaves(_, _)
\* the elements below el that are no <g>, in document order, each with the
\* product of the matrices of its enclosing <g>s and its own
PlacedLeaves(el, outer) ==
    IF el.tag = "g"
    THEN Flat([i \in 1..Len(el.content) |->
                  PlacedLeaves(el.content[i], SvgProduct(outer, ReadMatrix(el.transform)))])
    ELSE <<[el |-> el, matrix |-> SvgProduct(outer, ReadMatrix(el.transform))]>>

\* the cut settings lbrn2_to_svg hands to the elements
CutSettingsOf(proj) == IF proj.cut_settings = <<>> THEN None ELSE Some(proj.cut_settings)

RECURSIVE ComposedLeaves(_, _, _)
\* the leaves below shape that give an element, in order, each with the
\* composition xform of the transforms of its ancestors and its own
ComposedLeaves(shape, xform, cs) ==
    IF shape.kind = "Group"
    THEN Flat([i \in 1..Len(shape.children) |->
                  ComposedLeaves(shape.children[i],
                                 Compose(xform, shape.children[i].xform), cs)])
    ELSE IF shape_to_svg_element(shape, cs).el = NoElement THEN <<>>
    ELSE <<xform>>

\* the local points of an element that its box rests on
LocalPoints(el) ==
    CASE el.tag \in {"rect", "image"} ->
           LET x == ReadNumber(el.x)
               y == ReadNumber(el.y)
               w == ReadNumber(el.width)
               h == ReadNumber(el.height)
           IN  {<<x, y>>, <<x + w, y>>, <<x, y + h>>, <<x + w, y + h>>}
      [] el.tag = "circle" ->
           LET r == ReadNumber(el.r) IN {<<r, 0>>, <<-r, 0>>, <<0, r>>, <<0, -r>>}
      [] el.tag = "ellipse" ->
           {<<ReadNumber(el.rx), 0>>, <<-ReadNumber(el.rx), 0>>,
            <<0, ReadNumber(el.ry)>>, <<0, -ReadNumber(el.ry)>>}
      [] el.tag = "path" ->
           {<<ReadNumber(el.d[k].args[Len(el.d[k].args) - 1]),
              ReadNumber(el.d[k].args[Len(el.d[k].args)])>> :
               k \in {j \in 1..Len(el.d) : el.d[j].op # "Z"}}

\* C8: every leaf element is mapped, by the product of the matrices of its
\* enclosing <g>s and its own, as the bounds map it: (x, y) to
\* (a*x+c*y+e, -(b*x+d*y+f)) for a..f the composition of the transforms
\* of its ancestors and its own; and the viewBox holds the points drawn.
C8_SvgPlacesLikeBounds ==
    svg.at = "ready" /\ svg.out # None /\ svg.project.shapes # <<>> =>
      LET out == Unwrap(svg.out)
          shapes == svg.project.shapes
          placed == Flat([i \in 1..Len(out.elements) |->
                             PlacedLeaves(out.elements[i], <<1, 0, 0, 1, 0, 0>>)])
          composed == Flat([i \in 1..Len(shapes) |->
                               ComposedLeaves(shapes[i], shapes[i].xform,
                                              CutSettingsOf(svg.project))])
          min_x == ReadNumber(out.view_box[1])
          min_y == ReadNumber(out.view_box[2])
          w == ReadNumber(out.view_box[3])
          h == ReadNumber(out.view_box[4])
      IN  /\ Len(placed) = Len(composed)
          /\ \A k \in 1..Len(placed) :
               /\ \A pt \in LocalPoints(placed[k].el) :
                     SvgApply(placed[k].matrix, pt) = Tx(composed[k], pt)
               /\ placed[k].matrix =
                     <<composed[k].a, -composed[k].b, composed[k].c,
                       -composed[k].d, composed[k].e, -composed[k].f>>
               /\ \A pt \in LocalPoints(placed[k].el) :
                     LET at == SvgApply(placed[k].matrix, pt) IN
                     /\ min_x <= at[1] /\ at[1] <= min_x + w
                     /\ min_y <= at[2] /\ at[2] <= min_y + h

\* the calls of shape_to_svg_element that the call on shape leads to
RECURSIVE Invocations(_)
Invocations(shape) ==
    {shape} \cup
      (IF shape.kind # "Group" THEN {}
       ELSE IF Len(shape.children) = 1
       THEN Invocations([shape.children[1] EXCEPT
                            !.xform = Compose(shape.xform, shape.children[1].xform)])
       ELSE UNION {Invocations(shape.children[i]) : i \in 1..Len(shape.children)})

RECURSIVE CountG(_)
\* the <g> elements in an element
CountG(el) ==
    IF el.tag # "g" THEN 0
    ELSE 1 + LET RECURSIVE Sum(_)
                 Sum(i) == IF i > Len(el.content) THEN 0
                           ELSE CountG(el.content[i]) + Sum(i + 1)
             IN  Sum(1)

RECURSIVE CountWide(_)
\* the groups of more than one child in a shape
CountWide(shape) ==
    IF shape.kind # "Group" THEN 0
    ELSE (IF Len(shape.children) > 1 THEN 1 ELSE 0)
           + LET RECURSIVE Sum(_)
                 Sum(i) == IF i > Len(shape.children) THEN 0
                           ELSE CountWide(shape.children[i]) + Sum(i + 1)
             IN  Sum(1)

\* C9: a Group of one child gives what its child gives with the transform
\* group.compose(child): no <g>, the child's own style; a Group of more
\* children gives one <g> with the group's transform around the elements
\* of its children, in order, each as it is rendered alone; the document
\* has as many <g> as the project has groups of more than one child.
C9_GroupFlattenedOrWrapped ==
    svg.at = "ready" /\ svg.out # None /\ svg.project.shapes # <<>> =>
      LET cs == CutSettingsOf(svg.project)
          shapes == svg.project.shapes
          El(sh) == shape_to_svg_element(sh, cs).el
          alone == [i \in 1..Len(shapes) |-> El(shapes[i])]
      IN  /\ Unwrap(svg.out).elements = SelectSeq(alone, LAMBDA e : e # NoElement)
          /\ \A i \in 1..Len(shapes) :
               /\ CountG(alone[i]) = CountWide(shapes[i])
               /\ \A g \in Invocations(shapes[i]) :
                    /\ g.kind = "Group" /\ Len(g.children) = 1 =>
                         LET child == g.children[1]
                             xform == Compose(g.xform, child.xform)
                         IN  /\ El(g) = El([child EXCEPT !.xform = xform])
                             /\ child.kind # "Group" /\ El(g) # NoElement =>
                                  /\ El(g).tag \notin {"g", ""}
                                  /\ El(g).transform = format_matrix(xform)
                                  /\ El(g).style = get_cut_setting_style(child.cut_index, cs)
                             /\ El(child) = NoElement => El(g) = NoElement
                    /\ g.kind = "Group" /\ Len(g.children) > 1 =>
                         LET each == [k \in 1..Len(g.children) |-> El(g.children[k])] IN
                         /\ El(g).tag = "g"
                         /\ El(g).transform = format_matrix(g.xform)
                         /\ El(g).content = SelectSeq(each, LAMBDA e : e # NoElement)
                         /\ \A k \in 1..Len(g.children) :
                              g.children[k].kind # "Group" /\ each[k] # NoElement =>
                                each[k].transform = format_matrix(g.children[k].xform)

\* a document was written for a group of two children, the first a group
\* of one Rect, flattened inside the <g>, the second a leaf
C9_Witness ==
    /\ svg.at = "ready" /\ svg.out # None
    /\ Len(svg.project.shapes) = 1
    /\ svg.project.shapes[1].kind = "Group"
    /\ Len(svg.project.shapes[1].children) = 2
    /\ svg.project.shapes[1].children[1].kind = "Group"
    /\ Len(svg.project.shapes[1].children[1].children) = 1
    /\ svg.project.shapes[1].children[1].children[1].kind = "Rect"
    /\ Unwrap(svg.out).elements[1].tag = "g"
    /\ Len(Unwrap(svg.out).elements[1].content) = 2
    /\ Unwrap(svg.out).elements[1].content[1].tag = "rect"
    /\ Unwrap(svg.out).elements[1].content[1].transform =
          format_matrix(Compose(svg.project.shapes[1].children[1].xform, XFormMove))


\* the boxes the Bounds Engine returned for the top-level shapes
TopBoxes == {Unwrap(svg.bounds)[i] : i \in 1..Len(svg.project.shapes)} \ {None}

\* C19: for a project with shapes, the viewBox of the document is the
\* union of the boxes get_transformed_bounds returns for the top-level
\* shapes that have one: min x, min y, then the extents, which are also the
\* width and height in mm and are never negative; when no top-level shape
\* has a box it is 0 -100 100 100.
C19_ViewBoxIsUnion ==
    svg.at = "ready" /\ svg.out # None /\ svg.bounds # None
        /\ svg.project.shapes # <<>> =>
      LET doc == Unwrap(svg.out)
          min_x == Min({Unwrap(b).min_x : b \in TopBoxes})
          min_y == Min({Unwrap(b).min_y : b \in TopBoxes})
          max_x == Max({Unwrap(b).max_x : b \in TopBoxes})
          max_y == Max({Unwrap(b).max_y : b \in TopBoxes})
      IN  IF TopBoxes = {}
          THEN /\ doc.view_box = <<svg_f(0), svg_f(-100), svg_f(100), svg_f(100)>>
               /\ doc.width = svg_f(100) \o <<"m", "m">>
               /\ doc.height = svg_f(100) \o <<"m", "m">>
          ELSE /\ doc.view_box = <<svg_f(min_x), svg_f(min_y),
                                    svg_f(max_x - min_x), svg_f(max_y - min_y)>>
               /\ doc.width = svg_f(max_x - min_x) \o <<"m", "m">>
               /\ doc.height = svg_f(max_y - min_y) \o <<"m", "m">>
               /\ ReadNumber(doc.view_box[3]) >= 0
               /\ ReadNumber(doc.view_box[4]) >= 0

\* a document has been written for three top-level shapes, one without a
\* box and two with boxes neither of which holds the other
C19_Witness ==
    /\ svg.at = "ready" /\ svg.out # None /\ svg.bounds # None
    /\ Len(svg.project.shapes) = 3
    /\ None \in {Unwrap(svg.bounds)[i] : i \in 1..3}
    /\ \E b, c \in TopBoxes :
          /\ Unwrap(b).min_x < Unwrap(c).min_x
          /\ Unwrap(b).max_x < Unwrap(c).max_x


\* the parameter t of a curve takes the values k / Samples
Samples == 8

\* Samples^3 times the coordinate of bezier_point at t = k / Samples
CurveAt(k, p0, c0, c1, p1) ==
    LET m == Samples - k IN
    m * m * m * p0 + 3 * m * m * k * c0 + 3 * m * k * k * c1 + k * k * k * p1

RECURSIVE Curves(_, _)
\* the curves below shape: a Bezier primitive with indices in range and
\* its four control coordinates, with the composition xform of the
\* transforms of the shapes above it and of its own path
Curves(shape, xform) ==
    IF shape.kind = "Group"
    THEN UNION {Curves(shape.children[i], Compose(xform, shape.children[i].xform)) :
                   i \in 1..Len(shape.children)}
    ELSE IF shape.kind # "Path" \/ shape.prim_list = LineClosed THEN {}
    ELSE {[xform |-> xform,
           p0 |-> shape.parsed_verts[shape.parsed_primitives[j].start_idx + 1],
           p1 |-> shape.parsed_verts[shape.parsed_primitives[j].end_idx + 1]] :
             j \in {i \in 1..Len(shape.parsed_primitives) :
                      /\ shape.parsed_primitives[i].kind = "Bezier"
                      /\ ~Pointless(shape.parsed_verts, shape.parsed_primitives[i])
                      /\ HasControls(
                            shape.parsed_verts[shape.parsed_primitives[i].start_idx + 1],
                            shape.parsed_verts[shape.parsed_primitives[i].end_idx + 1])}}

\* Samples^3 times the point of curve cv at t = k / Samples, in SVG space
\* (the closure tx of the bounds: the transform, then the flip of y)
CurveInSvgSpace(cv, k) ==
    LET x == CurveAt(k, cv.p0.x, Unwrap(cv.p0.c0x), Unwrap(cv.p1.c1x), cv.p1.x)
        y == CurveAt(k, cv.p0.y, Unwrap(cv.p0.c0y), Unwrap(cv.p1.c1y), cv.p1.y)
        n == Samples * Samples * Samples
    IN  <<cv.xform.a * x + cv.xform.c * y + cv.xform.e * n,
          -(cv.xform.b * x + cv.xform.d * y + cv.xform.f * n)>>

\* C20: for every Bezier primitive with indices in range and its four
\* control coordinates, the point of the cubic curve at every sampled t in
\* [0,1], transformed into SVG space, lies in the box get_transformed_bounds
\* returns for the path, and for every Group the path lies in.
C20_CurveInsideBounds ==
    svg.at = "bounds" /\ svg.out # None =>
      \A cv \in Curves(svg.shape, svg.shape.xform) :
        /\ Unwrap(svg.out) # None
        /\ \A k \in 0..Samples :
              LET box == Unwrap(Unwrap(svg.out))
                  pt == CurveInSvgSpace(cv, k)
                  n == Samples * Samples * Samples
              IN  /\ box.min_x * n <= pt[1] /\ pt[1] <= box.max_x * n
                  /\ box.min_y * n <= pt[2] /\ pt[2] <= box.max_y * n

\* the bounds of a Path have been computed that has a curve a sampled
\* point of which lies strictly beyond both of its end points
C20_Witness ==
    /\ svg.at = "bounds" /\ svg.out # None
    /\ svg.shape.kind = "Path"
    /\ \E cv \in Curves(svg.shape, svg.shape.xform) : \E k \in 1..(Samples - 1) :
          /\ CurveInSvgSpace(cv, k)[1] > CurveInSvgSpace(cv, 0)[1]
          /\ CurveInSvgSpace(cv, k)[1] > CurveInSvgSpace(cv, Samples)[1]


(***************************************************************************)
(* Properties of parse_vert_list.                                          *)
(***************************************************************************)
RECURSIVE ValidVertices(_)
\* one vertex for every V token whose x and y are both floats, in order
ValidVertices(items) ==
    IF items = <<>> THEN <<>>
    ELSE LET it == Head(items) IN
         (IF IsSome(it.x.value) /\ IsSome(it.y.value)
          THEN <<Vec2(Unwrap(it.x.value), Unwrap(it.y.value), it.suffix.cp.c0x,
                      it.suffix.cp.c0y, it.suffix.cp.c1x, it.suffix.cp.c1y)>>
          ELSE <<>>) \o ValidVertices(Tail(items))

\* C21: parse_vert_list drops every V token whose x or y numeral is missing
\* or is no float and decodes the others: the result holds exactly one
\* vertex for every V token with two valid numerals, in input order, with
\* the control fields of the keys in its suffix ("V49 48V62 63" yields
\* (49,48) and (62,63) without control points).
C21_MalformedVertexDropped ==
    svg.at = "verts" /\ svg.out # None =>
      Unwrap(svg.out) = ValidVertices(svg.items)


(***************************************************************************)
(* Properties of parse_prim_list.                                          *)
(***************************************************************************)
RECURSIVE DecodedPrimitives(_)
\* one primitive for every L or B with at least two integers, in order
DecodedPrimitives(items) ==
    IF items = <<>> THEN <<>>
    ELSE LET it == Head(items) IN
         (IF it.op \in {"L", "B"} /\ Len(it.args) >= 2
          THEN <<[kind |-> IF it.op = "L" THEN "Line" ELSE "Bezier",
                  start_idx |-> it.args[1], end_idx |-> it.args[2]]>>
          ELSE <<>>) \o DecodedPrimitives(Tail(items))

\* the index at which the outer loop of parse_prim_list continues after the
\* iteration that starts at index i
PrimLoopResumes(chars, i) ==
    LET i1 == ScanWhile(chars, i, WhitespaceChars) IN
    IF i1 > Len(chars) THEN i1
    ELSE IF chars[i1] \notin AlphabeticChars THEN i1 + 1
    ELSE PrimArgs(chars, i1 + 1, 4, <<>>)[2]

\* C22: parse_prim_list returns, in input order, one Line per L and one
\* Bezier per B that is followed by at least two integers, built from the
\* first two integers (a third and fourth are ignored); any other letter,
\* and an L or B with fewer than two integers, contributes nothing and the
\* opcodes after it are still decoded ("B0 1 L1 2" yields Bezier{0,1},
\* Line{1,2}); every iteration of the scan moves forward, so it terminates.
C22_PrimListDecoded ==
    svg.at = "prims" /\ svg.out # None =>
      /\ Unwrap(svg.out) = DecodedPrimitives(svg.items)
      /\ \A i \in 1..Len(PrimItemsText(svg.items)) :
            /\ PrimLoopResumes(PrimItemsText(svg.items), i) > i
            /\ PrimLoopResumes(PrimItemsText(svg.items), i)
                 <= Len(PrimItemsText(svg.items)) + 1

\* "X12 L0 B0 12 0 12 L12 0" style input: an opcode that contributes nothing
\* has been followed by a B with four integers, and that B was decoded
C22_Witness ==
    /\ svg.at = "prims"
    /\ svg.out = Some(<<Bezier(0, 12)>>)
    /\ Len(svg.items) = 2
    /\ svg.items[1].op = "L" /\ Len(svg.items[1].args) = 1
    /\ svg.items[2].op = "B" /\ svg.items[2].args = <<0, 12, 12, 0>>


(***************************************************************************)
(* Properties of the lbrn2 command.                                        *)
(***************************************************************************)
\* the exit code of a run in a world, whatever the warnings
ExitCodeOf(run) ==
    IF ~run.readable THEN 2
    ELSE IF ~run.parses THEN 3
    ELSE IF ~run.writable THEN 4
    ELSE 0

\* C23: the stages run in the order read, parse, convert, write; the run
\* exits with 2 if reading fails, 3 if parsing fails, 4 if writing fails and
\* 0 after a confirmation message otherwise; the output file is written only
\* after reading and parsing succeeded; warnings never change the exit code.
C23_StagesAndExitCodes ==
    svg.at = "cli" =>
      /\ Len(svg.stages) <= Len(StagesOfRun)
      /\ svg.stages = SubSeq(StagesOfRun, 1, Len(svg.stages))
      /\ svg.written => svg.readable /\ svg.parses /\ svg.stages = StagesOfRun
      /\ svg.exit # None =>
           /\ Unwrap(svg.exit) = ExitCodeOf(svg)
           /\ Unwrap(svg.exit) = 0 <=> svg.stdout = <<"Successfully converted">>
           /\ Unwrap(svg.exit) = 0 <=> svg.written
           /\ Unwrap(svg.exit) = 2 => svg.stages = <<"read">>
           /\ Unwrap(svg.exit) = 3 => svg.stages = <<"read", "parse">>
           /\ Unwrap(svg.exit) \in {0, 4} => svg.stages = StagesOfRun

\* a run has exited with code 3 after parsing printed warnings and failed,
\* and the output file was not written
C23_Witness ==
    /\ svg.at = "cli"
    /\ svg.exit = Some(3)
    /\ svg.parse_warnings = MaxWarnings
    /\ Len(svg.stderr) = MaxWarnings + 1
    /\ ~svg.written


(***************************************************************************)
(* Properties of the History.                                              *)
(***************************************************************************)
\* the calls remembered, and the newest of them
Calls == svg.calls

Newest == Calls[Len(Calls)]

\* calls i and i + 1 are both `op` and both returned a state
TwoInARow(i, op) ==
    /\ Calls[i].op = op /\ Calls[i].ret # None
    /\ Calls[i + 1].op = op /\ Calls[i + 1].ret # None

\* C24: undo(cur) on a non-empty undo stack returns the newest state of the
\* stack and pushes cur on the redo stack; a redo(returned) right after it
\* returns cur and restores both stacks; two undos after two saves return
\* the saved states newest first, and the redos after two undos return the
\* undone states in the order they had.
C24_UndoRedoRoundTrip ==
    svg.at = "history" /\ Calls # <<>> =>
      /\ Newest.op = "undo" /\ can_undo(Newest.before) =>
           /\ Newest.ret = Some(Top(Newest.before.undo_stack))
           /\ svg.history.undo_stack = Front(Newest.before.undo_stack)
           /\ svg.history.redo_stack = Append(Newest.before.redo_stack, Newest.cur)
           /\ can_redo(svg.history)
      /\ \A i \in 1..(Len(Calls) - 1) :
           /\ Calls[i].op = "undo" /\ Calls[i].ret # None /\ Calls[i + 1].op = "redo" =>
                /\ Calls[i + 1].cur = Unwrap(Calls[i].ret)
                /\ Calls[i + 1].ret = Some(Calls[i].cur)
                /\ undo(Calls[i].before, Calls[i].cur).history = Calls[i + 1].before
                /\ redo(Calls[i + 1].before, Calls[i + 1].cur).history = Calls[i].before
           /\ TwoInARow(i, "undo") =>
                LET held == Calls[i].before.undo_stack IN
                /\ Len(held) >= 2
                /\ Calls[i].ret = Some(held[Len(held)])
                /\ Calls[i + 1].ret = Some(held[Len(held) - 1])
      /\ \A i \in 1..(Len(Calls) - 3) :
           /\ (/\ Calls[i].op = "save_state" /\ Calls[i + 1].op = "save_state"
               /\ TwoInARow(i + 2, "undo")) =>
                /\ Calls[i + 2].ret = Some(Calls[i + 1].cur)
                /\ Calls[i + 3].ret = Some(Calls[i].cur)
           /\ TwoInARow(i, "undo") /\ TwoInARow(i + 2, "redo") =>
                /\ Calls[i + 2].ret = Some(Calls[i + 1].cur)
                /\ Calls[i + 3].ret = Some(Calls[i].cur)
                /\ svg.history = Calls[i].before

\* two undos and two redos, all of which returned a state, have just run
C24_Witness ==
    /\ svg.at = "history"
    /\ Len(Calls) = 4
    /\ TwoInARow(1, "undo") /\ TwoInARow(3, "redo")
    /\ Len(svg.history.undo_stack) = 2
    /\ svg.document = 2

\* C25: save_state empties the redo stack: from a save_state until the next
\* undo that returns a state, can_redo() is false and redo returns None; a
\* state that was on the redo stack at a save_state is never returned by a
\* later redo.
C25_SaveClearsRedo ==
    svg.at = "history" /\ Calls # <<>> =>
      /\ Newest.op = "save_state" => ~can_redo(svg.history)
      /\ svg.saved => /\ ~can_redo(svg.history)
                      /\ redo_count(svg.history) = 0
                      /\ Newest.op = "redo" => Newest.ret = None
      /\ \A d \in svg.dropped :
           /\ d # svg.document
           /\ \A i \in 1..Len(svg.history.redo_stack) : svg.history.redo_stack[i] # d
           /\ Newest.op = "redo" => Newest.ret # Some(d)

\* an undo returned a state, then save_state ran, then redo returned None
C25_Witness ==
    /\ svg.at = "history"
    /\ Len(Calls) >= 3
    /\ Calls[Len(Calls) - 2].op = "undo" /\ Calls[Len(Calls) - 2].ret # None
    /\ Calls[Len(Calls) - 1].op = "save_state"
    /\ Newest.op = "redo" /\ Newest.ret = None
    /\ svg.dropped # {}

\* C26: undo_count() never exceeds MAX_HISTORY_SIZE and undo_count() +
\* redo_count() never exceeds it either; a save_state on a full undo stack
\* discards the oldest state, so that the stack holds the states it held,
\* without the oldest, followed by the state saved.
C26_HistoryBounded ==
    svg.at = "history" =>
      /\ undo_count(svg.history) <= MAX_HISTORY_SIZE
      /\ undo_count(svg.history) + redo_count(svg.history) <= MAX_HISTORY_SIZE
      /\ Calls # <<>> /\ Newest.op = "save_state" =>
           svg.history.undo_stack =
             (IF undo_count(Newest.before) = MAX_HISTORY_SIZE
              THEN Tail(Newest.before.undo_stack)
              ELSE Newest.before.undo_stack) \o <<Newest.cur>>

\* save_state has just run on a History whose undo stack was full
C26_Witness ==
    /\ svg.at = "history"
    /\ Calls # <<>>
    /\ Newest.op = "save_state"
    /\ undo_count(Newest.before) = MAX_HISTORY_SIZE
    /\ undo_count(svg.history) = MAX_HISTORY_SIZE
    /\ svg.history.undo_stack[1] = Newest.before.undo_stack[2]


(***************************************************************************)
(* Properties of the editor's frames.                                      *)
(***************************************************************************)
\* C27: every drag that starts on an element or on a point of the selected
\* path saves exactly one state, the document as it was before the drag
\* changed it, so that one undo after the drag restores that document;
\* frames without an active drag save nothing.
C27_DragSavesPreDragDocument ==
    svg.at = "editor" =>
      /\ svg.idle_saves = 0
      /\ svg.gesture.stopped /\ svg.gesture.hit # "none" =>
           /\ svg.gesture.saves = <<svg.gesture.before>>
           /\ undo(svg.history, svg.document).ret = Some(svg.gesture.before)


(***************************************************************************)
(* Properties of the bounds of a path with explicit primitives.            *)
(***************************************************************************)
\* the primitives of a path that generate_path_data emits: those with both
\* indices in range
EmittedPrimitives(path) ==
    SelectSeq(path.parsed_primitives, LAMBDA prim : ~OutOfRange(path, prim))

\* C28: in get_transformed_bounds a Line or Bezier with its start or end
\* index out of range contributes no point, while the other primitives
\* still do: the box of a path with explicit primitives is the box of the
\* points of the primitives that generate_path_data emits for it.
C28_BoundsOfEmittedPrimitives ==
    (/\ svg.at = "bounds" /\ svg.out # None
     /\ svg.shape.kind = "Path"
     /\ svg.shape.parsed_verts # <<>>
     /\ svg.shape.prim_list # LineClosed
     /\ svg.shape.parsed_primitives # <<>>) =>
      /\ \A j \in 1..Len(svg.shape.parsed_primitives) :
            OutOfRange(svg.shape, svg.shape.parsed_primitives[j]) =>
              PrimitivePoints(svg.shape.parsed_verts,
                              svg.shape.parsed_primitives[j]) = <<>>
      /\ Unwrap(svg.out) =
           BoundsOfPoints(svg.shape.xform,
                          PathPoints(svg.shape.parsed_verts,
                                     EmittedPrimitives(svg.shape), 1))


(***************************************************************************)
(* Properties of the caches when an ID is defined more than once.          *)
(***************************************************************************)
\* the shape that closed in the last step used its own inline lists
OwnInlineLists ==
    LET fr == Closed.frame
        fin == Closed.fin
    IN  /\ fr.vert_list # <<>> =>
             /\ fin.rv.raw = fr.vert_list
             /\ fin.rv.items = parse_vert_list(fr.vert_list)
             /\ ~fin.rv.warn
        /\ fr.prim_list # <<>> =>
             /\ fin.rp.raw = fr.prim_list
             /\ fin.rp.items = IF fr.prim_list = LineClosed THEN <<>>
                               ELSE parse_prim_list(fr.prim_list)
             /\ ~fin.rp.warn

\* the shape that closed in the last step, if it refers to an ID without
\* inline data, resolved to the definitions dV and dP of that ID
ResolvedTo(dV, dP) ==
    LET fr == Closed.frame
        fin == Closed.fin
    IN  /\ fr.vert_list = <<>> /\ IsSome(fr.vert_id) /\ IsSome(dV[Unwrap(fr.vert_id)]) =>
             /\ fin.rv.raw = Unwrap(dV[Unwrap(fr.vert_id)])
             /\ fin.rv.items = parse_vert_list(fin.rv.raw)
        /\ fr.prim_list = <<>> /\ IsSome(fr.prim_id) /\ IsSome(dP[Unwrap(fr.prim_id)]) =>
             /\ fin.rp.raw = Unwrap(dP[Unwrap(fr.prim_id)])
             /\ fin.rp.items = IF fin.rp.raw = LineClosed THEN <<>>
                               ELSE parse_prim_list(fin.rp.raw)

\* C29 as stated: a shape with inline data uses its own text whatever the
\* cache holds, and a reference without inline data resolves to the newest
\* inline definition of the ID among the shapes whose body closed before
\* its own; no step changes a shape stored before it.
C29_NewestClosedDefinition ==
    /\ [](last.closed # None /\ ~Closed.fin.replaced =>
            OwnInlineLists /\ ResolvedTo(hist.newestV, hist.newestP))
    /\ [][StoredStay]_vars

\* C29, amended: as stated, but the definitions that count are those of the
\* shapes that were not a Text replaced by its backup path: such a shape
\* registers nothing, and a reference after it resolves to the newest
\* definition registered before it (or to nothing).
C29_NewestRegisteredDefinition ==
    /\ [](last.closed # None /\ ~Closed.fin.replaced =>
            /\ OwnInlineLists
            /\ ResolvedTo(hist.regV, hist.regP)
            /\ Closed.frame.vert_list = <<>> /\ IsSome(Closed.frame.vert_id)
                 /\ hist.regV[Unwrap(Closed.frame.vert_id)] = None =>
                   Closed.fin.rv.items = <<>> /\ Closed.fin.rv.warn)
    /\ [][StoredStay]_vars

\* a reference closed after two inline definitions of its ID with
\* different texts and took the vertices of the second
C29_Witness ==
    /\ last.closed # None
    /\ Closed.frame.vert_list = <<>> /\ IsSome(Closed.frame.vert_id)
    /\ Cardinality(hist.defsV[Unwrap(Closed.frame.vert_id)]) = 2
    /\ hist.regV[Unwrap(Closed.frame.vert_id)] = Some(VertTextB)
    /\ Closed.fin.rv.items = parse_vert_list(VertTextB)
    /\ project.shapes # <<>>
    /\ project.shapes[1].vert_list = VertTextA


(***************************************************************************)
(* Properties of what a closing shape registers in the caches.             *)
(***************************************************************************)
\* the entry of an inline list with the text raw, decoded as a VertList
VertEntry(raw) == Some([raw |-> raw, items |-> parse_vert_list(raw)])

\* the entry of an inline list with the text raw, decoded as a PrimList
PrimEntry(raw) ==
    Some([raw |-> raw,
          items |-> IF raw = LineClosed THEN <<>> ELSE parse_prim_list(raw)])

\* the shape that closes in this step registers the VertList of ID k
RegistersVerts(k) ==
    /\ last'.closed # None
    /\ ~Unwrap(last'.closed).fin.replaced
    /\ Unwrap(last'.closed).frame.vert_list # <<>>
    /\ Unwrap(last'.closed).frame.vert_id = Some(k)

\* the shape that closes in this step registers the PrimList of ID k
RegistersPrims(k) ==
    /\ last'.closed # None
    /\ ~Unwrap(last'.closed).fin.replaced
    /\ Unwrap(last'.closed).frame.prim_list # <<>>
    /\ Unwrap(last'.closed).frame.prim_id = Some(k)

\* a step of a parse that goes on or ends with a project changes a cache
\* entry only when a shape registering it closes (a parse that fails in
\* the step drops the parser and its caches)
OnlyInlineListsRegister ==
    (result' = None \/ Unwrap(result').ok) =>
        \A k \in IdSpace :
            /\ vertex_cache'[k] # vertex_cache[k] => RegistersVerts(k)
            /\ primitive_cache'[k] # primitive_cache[k] => RegistersPrims(k)

\* C30: when a shape body closes with an inline VertList or PrimList and
\* its ID, the cache entry of that ID is the inline text and its decoded
\* list, whatever the Type of the shape and whether or not the shape is
\* returned or stored by its caller, unless the shape is a Text replaced by
\* its backup path; a reference to a registered ID resolves to the entry
\* without a warning; and while the parse has not failed no other step
\* changes a cache entry: not the close of a replaced Text, not the close
\* of a shape without inline data, not an empty-element shape.
C30_InlineListsRegistered ==
    /\ [](last.closed # None /\ ~Closed.fin.replaced =>
            LET fr == Closed.frame
                fin == Closed.fin
            IN  /\ fr.vert_list # <<>> /\ IsSome(fr.vert_id) =>
                     vertex_cache[Unwrap(fr.vert_id)] = VertEntry(fr.vert_list)
                /\ fr.prim_list # <<>> /\ IsSome(fr.prim_id) =>
                     primitive_cache[Unwrap(fr.prim_id)] = PrimEntry(fr.prim_list)
                /\ fr.vert_list = <<>> /\ IsSome(fr.vert_id)
                     /\ IsSome(hist.regV[Unwrap(fr.vert_id)]) =>
                       /\ ~fin.rv.warn
                       /\ Some([raw |-> fin.rv.raw, items |-> fin.rv.items])
                            = VertEntry(Unwrap(hist.regV[Unwrap(fr.vert_id)]))
                /\ fr.prim_list = <<>> /\ IsSome(fr.prim_id)
                     /\ IsSome(hist.regP[Unwrap(fr.prim_id)]) =>
                       /\ ~fin.rp.warn
                       /\ Some([raw |-> fin.rp.raw, items |-> fin.rp.items])
                            = PrimEntry(Unwrap(hist.regP[Unwrap(fr.prim_id)])))
    /\ [][OnlyInlineListsRegister]_vars

\* a shape nested in a shape outside Children closed with an inline
\* VertList and an ID that an earlier shape had defined with another text:
\* the shape is dropped by its caller and the cache holds its text
C30_Witness ==
    /\ last.closed # None
    /\ ~Closed.fin.replaced
    /\ Closed.to \in {"none", "discarded"}
    /\ Closed.level > 1
    /\ Closed.frame.vert_list # <<>>
    /\ IsSome(Closed.frame.vert_id)
    /\ Cardinality(hist.defsV[Unwrap(Closed.frame.vert_id)]) = 2
    /\ vertex_cache[Unwrap(Closed.frame.vert_id)] = VertEntry(Closed.frame.vert_list)

=============================================================================
